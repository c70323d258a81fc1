------------------------------- MODULE SboxLab -------------------------------
(***************************************************************************)
(* The benchmark of lab/crypto.py: an S-box is constructed or read from    *)
(* its caller, the Walsh-Hadamard spectra of its component functions are   *)
(* computed in place by butterflies, and the metrics are read off the      *)
(* spectra and the differences.                                            *)
(***************************************************************************)
EXTENDS SboxConstruction, Functions, FiniteSetsExt

CONSTANT Boxes   \* S-boxes that callers supply

ASSUME BoxAssumption == Boxes \subseteq [Byte -> Byte]

VARIABLES
  spectra,    \* for every output mask its vector, being transformed in place
  step,       \* half the width of the next butterflies
  metrics     \* what sbox_metrics and sbox_structure return, or None

labVars == <<constructVars, spectra, step, metrics>>

-----------------------------------------------------------------------------
(* Bit vectors *)

Bit == 0..(NBits - 1)
BitsOf == [a \in Byte |-> {b \in Bit : (a \div 2^b) % 2 = 1}]
FromBits == [bits \in SUBSET Bit |-> CHOOSE a \in Byte : BitsOf[a] = bits]
Xor == [a \in Byte |-> [b \in Byte |-> FromBits[SymDiff(BitsOf[a], BitsOf[b])]]]

\* _POP[a & b] & 1
Parity == [a \in Byte |-> [b \in Byte |-> Cardinality(BitsOf[a] \cap BitsOf[b]) % 2]]

Masks == 1..(N - 1)
AbsValue(v) == IF v < 0 THEN -v ELSE v

-----------------------------------------------------------------------------
(* Spectra *)

LabInit == ConstructInit /\ spectra = <<>> /\ step = 1 /\ metrics = None

\* _as_array: N integers on [0, N); a caller's box need not be a permutation.
SupplyBox ==
  /\ lpc = "called"
  /\ box' \in Boxes
  /\ lpc' = "supplied"
  /\ UNCHANGED <<stream, t, sequence, spectra, step, metrics>>

\* _component_spectra and linear_approximation_table: (-1)^(mask . S(x)).
BeginSpectra ==
  /\ lpc \in {"built", "supplied"}
  /\ spectra' = [mask \in Byte |-> [x \in Byte |-> 1 - 2 * Parity[mask][box[x]]]]
  /\ lpc' = "walsh"
  /\ UNCHANGED <<stream, t, sequence, box, step, metrics>>

\* A mistake: the differences are taken the other way round.
ButterflyReversed(v, h) ==
  [x \in Byte |-> IF (x \div h) % 2 = 0 THEN v[x] + v[x + h] ELSE v[x] - v[x - h]]

\* One round of _walsh_hadamard: the left half of a block gets the sums, the
\* right half the differences.
Butterfly(v, h) ==
  [x \in Byte |-> IF (x \div h) % 2 = 0 THEN v[x] + v[x + h] ELSE v[x - h] - v[x]]

WalshRound ==
  /\ lpc = "walsh" /\ step < N
  /\ spectra' = [mask \in Byte |-> Butterfly(spectra[mask], step)]
  /\ step' = 2 * step
  /\ UNCHANGED <<lpc, stream, t, sequence, box, metrics>>

-----------------------------------------------------------------------------
(* Metrics *)

IsBijection == {box[x] : x \in Byte} = Byte

\* nl_each: N // 2 - max |W| // 2.
NlEach(mask) == N \div 2 - Max({AbsValue(spectra[mask][w]) : w \in Byte}) \div 2

\* sac: how often output bit j flips with input bit i (N times the matrix).
Flips(i, j) == Cardinality({x \in Byte : j \in BitsOf[Xor[box[x]][box[Xor[x][2^i]]]]})

\* differential_distribution_table: row zero is left as zeros.
DifferenceTable ==
  [d \in Byte |-> [o \in Byte |->
     IF d = 0 THEN 0 ELSE Cardinality({x \in Byte : Xor[box[x]][box[Xor[x][d]]] = o})]]

\* sbox_metrics and sbox_structure; an average is kept as its terms.
Metrics ==
  [bijection |-> IsBijection,
   NL_per_bit |-> [b \in Bit |-> NlEach(2^b)],
   NL_min |-> Min({NlEach(mask) : mask \in Masks}),
   SAC |-> [i \in Bit |-> [j \in Bit |-> Flips(i, j)]],
   BIC |-> [p \in {q \in Bit \X Bit : q[1] < q[2]} |-> NlEach(2^p[1] + 2^p[2])],
   DDT |-> DifferenceTable,
   DU |-> LET table == DifferenceTable IN Max({table[d][o] : d \in Masks, o \in Byte}),
   max_WHT |-> Max({AbsValue(spectra[a][b]) : a, b \in Masks}),
   LAT |-> [a \in Byte |-> [b \in Byte |-> spectra[b][a] \div 2]]]

ComputeMetrics ==
  /\ lpc = "walsh" /\ step = N
  /\ metrics' = Metrics
  /\ lpc' = "metrics"
  /\ UNCHANGED <<stream, t, sequence, box, spectra, step>>

\* sbox_metrics_record: both checks are written as passed, whatever the box.
SboxRecord ==
  Returned("lab_metrics", "benchmark_metric", "lab",
           [n \in {"sbox_dimension", "bijection_recorded"} |-> MakeCheck("pass", TRUE)],
           TRUE, [bijection |-> metrics.bijection])

ReturnMetrics ==
  /\ lpc = "metrics"
  /\ result' = SboxRecord
  /\ lpc' = "done"
  /\ UNCHANGED <<stream, t, sequence, box, spectra, step, metrics>>

LabStep ==
  \/ ConstructStep /\ UNCHANGED <<spectra, step, metrics, recordVars>>
  \/ (SupplyBox \/ BeginSpectra \/ WalshRound \/ ComputeMetrics) /\ UNCHANGED recordVars
  \/ ReturnMetrics /\ UNCHANGED <<record, accepted>>

-----------------------------------------------------------------------------
(* Property *)

\* Distance of the component function of a mask to the nearest affine function.
AffineDistance(mask) ==
  Min({Cardinality({x \in Byte : Parity[mask][box[x]] # (Parity[w][x] + c) % 2}) :
         w \in Byte, c \in {0, 1}})

\* How far from even the agreement of an input and an output mask is.
Bias(a, b) == Cardinality({x \in Byte : Parity[a][x] = Parity[b][box[x]]}) - N \div 2

\* The numbers read off the in-place transforms (75-238) are the ones the
\* criteria define: nonlinearity is a distance to affine functions, per bit,
\* over all masks and over sums of two bits; the linear probability is the
\* largest bias of non-zero masks and the LAT the biases; a row of the DDT
\* counts every input, and no difference vanishes exactly for permutations.
MetricsAreDefinitions ==
  metrics # None =>
    /\ \A b \in Bit : metrics.NL_per_bit[b] = AffineDistance(2^b)
    /\ metrics.NL_min = Min({AffineDistance(mask) : mask \in Masks})
    /\ \A p \in DOMAIN metrics.BIC : metrics.BIC[p] = AffineDistance(2^p[1] + 2^p[2])
    /\ metrics.max_WHT = 2 * Max({AbsValue(Bias(a, b)) : a, b \in Masks})
    /\ \A a, b \in Byte : metrics.LAT[a][b] = Bias(a, b)
    /\ \A d \in Masks : SumFunction([o \in Byte |-> metrics.DDT[d][o]]) = N
    /\ metrics.bijection <=> \A d \in Masks : metrics.DDT[d][0] = 0
=============================================================================
