--------------------------- MODULE SboxConstruction ---------------------------
(***************************************************************************)
(* construct_sbox of lab/crypto.py.  The keyed construction walks a path,  *)
(* keeps the first occurrence of every byte and appends the bytes the path *)
(* never met; the direct one ranks the images of a lattice.  The maps from *)
(* a generator to bytes and to points are inputs, so a path may end before *)
(* it met every byte and images may coincide.                              *)
(***************************************************************************)
EXTENDS AnalysisRecord, Integers, Sequences, FiniteSets

CONSTANTS
  NBits,      \* N_BITS
  N,          \* N
  Streams,    \* the bytes that paths of the keyed construction yield
  Lattices      \* the images of the lattice points, for the direct construction

ASSUME SizeAssumption == NBits \in Nat \ {0} /\ N \in Nat \ {0} /\ N = 2^NBits

Byte == 0..(N - 1)

ASSUME PathAssumption == Streams \subseteq Seq(Byte)
ASSUME ImageAssumption == Lattices \subseteq [Byte -> Int \X Int]

VARIABLES
  lpc,        \* "idle", "called", "keyed", "fill", "built", "walsh", "metrics", "done"
  stream,     \* the bytes of the path
  t,          \* how many of them were looked at; then the next byte to fill in
  sequence,   \* the bytes kept, in order
  box         \* the S-box, or None

constructVars == <<lpc, stream, t, sequence, box>>

ConstructInit == lpc = "called" /\ stream = <<>> /\ t = 0 /\ sequence = <<>> /\ box = None

Seen == {sequence[i] : i \in DOMAIN sequence}

\* construct_sbox, keyed: a path is fixed by the generator, the key and the radius.
StartKeyed ==
  /\ lpc = "called"
  /\ stream' \in Streams
  /\ lpc' = "keyed"
  /\ UNCHANGED <<t, sequence, box>>

KeepUnseen(byte) ==
  sequence' = IF byte \in Seen THEN sequence ELSE Append(sequence, byte)

\* A mistake: every byte of the path is kept.
KeepEvery ==
  /\ lpc = "keyed" /\ Len(sequence) < N /\ t < Len(stream)
  /\ t' = t + 1
  /\ sequence' = Append(sequence, stream[t + 1])
  /\ UNCHANGED <<lpc, stream, box>>

\* The loop of the path, which is at most Len(stream) long.
KeepFirst ==
  /\ lpc = "keyed" /\ Len(sequence) < N /\ t < Len(stream)
  /\ t' = t + 1
  /\ KeepUnseen(stream[t + 1])
  /\ UNCHANGED <<lpc, stream, box>>

EndPath ==
  /\ lpc = "keyed" /\ (Len(sequence) = N \/ t = Len(stream))
  /\ lpc' = "fill" /\ t' = 0
  /\ UNCHANGED <<stream, sequence, box>>

\* Bytes the path has not met follow in increasing order.
FillIn ==
  /\ lpc = "fill" /\ t < N
  /\ t' = t + 1
  /\ KeepUnseen(t)
  /\ UNCHANGED <<lpc, stream, box>>

EndFill ==
  /\ lpc = "fill" /\ t = N
  /\ box' = [i \in Byte |-> sequence[i + 1]]
  /\ lpc' = "built"
  /\ UNCHANGED <<stream, t, sequence>>

\* lexsort: by real part, then by imaginary part, then by index.
Before(image, i, j) ==
  \/ image[i][1] < image[j][1]
  \/ image[i][1] = image[j][1] /\ image[i][2] < image[j][2]
  \/ image[i][1] = image[j][1] /\ image[i][2] = image[j][2] /\ i < j

Rank(image, i) == Cardinality({j \in Byte : Before(image, j, i)})

\* construct_sbox, direct: sbox[order] = arange(N).
ConstructDirect ==
  /\ lpc = "called"
  /\ \E image \in Lattices : box' = [i \in Byte |-> Rank(image, i)]
  /\ lpc' = "built"
  /\ UNCHANGED <<stream, t, sequence>>

ConstructStep ==
  StartKeyed \/ KeepFirst \/ EndPath \/ FillIn \/ EndFill \/ ConstructDirect

ConstructSpec == ConstructInit /\ [][ConstructStep]_constructVars

-----------------------------------------------------------------------------
(* Property *)

\* Whatever the path yields and however early it ends, and whatever ties the
\* lattice has, construct_sbox returns a permutation of the bytes (478-535): no
\* byte twice, none missing.
ConstructedPermutation ==
  lpc = "built" =>
    /\ \A i, j \in Byte : box[i] = box[j] => i = j
    /\ {box[i] : i \in Byte} = Byte
=============================================================================
