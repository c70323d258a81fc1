------------------------------- MODULE ImageLab -------------------------------
(***************************************************************************)
(* The image laboratory of lab/image.py: window means through an integral  *)
(* image, the reflected convolutions of the transforms, and the records of *)
(* metrics and transforms.  A grey image has levels 0..White for the floats*)
(* in [0, 1]; sums are kept undivided, so no rounding is modelled.         *)
(***************************************************************************)
EXTENDS AnalysisRecord, Integers, Sequences, Functions

CONSTANTS
  White,      \* the level of 1.0
  Images,     \* the images: sequences of rows, of equal lengths
  Windows,    \* the odd window sides of _uniform_filter
  Taps,       \* the sides of the generic smoothing kernel: 3, 5, 7 in the code
  Sides,      \* magnitudes of the coefficients a named function contributes
  Gains       \* the gains of the edge and sharpening transforms

ASSUME PictureAssumption ==
  /\ White \in Nat \ {0}
  /\ \A a \in Images : /\ a \in Seq(Seq(0..White)) /\ a # <<>> /\ a[1] # <<>>
                       /\ \A y \in 1..Len(a) : Len(a[y]) = Len(a[1])
  /\ \A w \in Windows \cup Taps : w \in Nat /\ w % 2 = 1
  /\ \A side \in Sides : side \in Seq(Nat)
  /\ Gains \subseteq Int

VARIABLES
  ipc,        \* "idle", "called", "columns", "rows", "filtered", "done" or the transform
  image,      \* the image the operation works on
  other,      \* the second image of the metrics, or None
  window,     \* the side of the windows
  integral,   \* the image being accumulated in place
  output      \* what the operation computed, or None

imageVars == <<ipc, image, other, window, integral, output>>

Height(a) == Len(a)
Width(a) == Len(a[1])
Rows(a) == 1..Height(a)
Columns(a) == 1..Width(a)

MinOf(a, b) == IF a < b THEN a ELSE b
MaxOf(a, b) == IF a < b THEN b ELSE a

ImageInit ==
  /\ ipc = "called" /\ image \in Images /\ other = None
  /\ window = 1 /\ integral = <<>> /\ output = None

-----------------------------------------------------------------------------
(* Window means: the statistics of _ssim_channel *)

\* cumsum of a vector; one along each axis, the second in place of the first.
Accumulated(v) ==
  LET sum[n \in 0..Len(v)] == IF n = 0 THEN 0 ELSE sum[n - 1] + v[n] IN sum

CumulatedColumns(a) ==
  [y \in Rows(a) |-> [x \in Columns(a) |-> Accumulated([i \in Rows(a) |-> a[i][x]])[y]]]
CumulatedRows(a) == [y \in Rows(a) |-> [x \in Columns(a) |-> Accumulated(a[y])[x]]]

\* image_metrics: images of two shapes are refused (not modelled further).
StartFilter ==
  /\ ipc = "called"
  /\ window' \in Windows
  /\ other' \in {b \in Images : Height(b) = Height(image) /\ Width(b) = Width(image)}
  /\ integral' = CumulatedColumns(image)
  /\ ipc' = "columns"
  /\ UNCHANGED <<image, output>>

AccumulateRows ==
  /\ ipc = "columns"
  /\ integral' = CumulatedRows(integral)
  /\ ipc' = "rows"
  /\ UNCHANGED <<image, other, window, output>>

\* integral[i, j] of the array that is padded with a zero row and column.
Corner(i, j) == IF i = 0 \/ j = 0 THEN 0 ELSE integral[i][j]

\* A mistake: the last row of a window is left out.
WindowTotalShort(y, x) ==
  LET radius == window \div 2
      top == MaxOf(y - radius, 1) - 1
      bottom == MinOf(y + radius, Height(image) - 1)
      left == MaxOf(x - radius, 1) - 1
      right == MinOf(x + radius, Width(image))
  IN Corner(bottom, right) - Corner(top, right) - Corner(bottom, left) + Corner(top, left)

\* total of _uniform_filter: windows are clipped at the edges.
WindowTotal(y, x) ==
  LET radius == window \div 2
      top == MaxOf(y - radius, 1) - 1
      bottom == MinOf(y + radius, Height(image))
      left == MaxOf(x - radius, 1) - 1
      right == MinOf(x + radius, Width(image))
  IN Corner(bottom, right) - Corner(top, right) - Corner(bottom, left) + Corner(top, left)

Filter ==
  /\ ipc = "rows"
  /\ output' = [y \in Rows(image) |-> [x \in Columns(image) |-> WindowTotal(y, x)]]
  /\ ipc' = "filtered"
  /\ UNCHANGED <<image, other, window, integral>>

-----------------------------------------------------------------------------
(* Transforms *)

\* _website_reflect, with indices from 1: one reflection, then a clamp.
Reflect(index, length) ==
  LET low == IF index < 1 THEN 1 - index ELSE index
      high == IF low > length THEN 2 * length - low + 1 ELSE low
  IN MaxOf(1, MinOf(length, high))

\* _convolve: a kernel is a function of the offsets from its centre.
Convolved(a, kernel, y, x) ==
  SumFunction([o \in DOMAIN kernel |->
                 kernel[o] * a[Reflect(y + o[1], Height(a))][Reflect(x + o[2], Width(a))]])

Offsets(radius) == ((-radius)..radius) \X ((-radius)..radius)

\* _kernel
Ones(taps) == [o \in Offsets(taps \div 2) |-> 1]
Sharpening(gain) ==
  [o \in Offsets(1) |->
     CASE o = <<0, 0>> -> 1 + 4 * gain
       [] o # <<0, 0>> /\ (o[1] = 0 \/ o[2] = 0) -> -gain
       [] OTHER -> 0]

\* The four directions of _function_kernel.
Direction(offset) == {<<0, offset>>, <<-offset, offset>>, <<offset, 0>>, <<offset, offset>>}

\* A mistake: the directions meet in the centre, which is counted once.
LowPassOnce(side) ==
  LET weight(offset) == IF offset = 0 THEN 1 ELSE side[MaxOf(offset, -offset)]
  IN [o \in Offsets(Len(side)) |->
        SumFunction([k \in {j \in (-Len(side))..Len(side) : o \in Direction(j)} |-> weight(k)])]

\* low_pass of _function_kernel, undivided: side holds the magnitudes of the
\* coefficients after the first.
LowPass(side) ==
  LET weight(offset) == IF offset = 0 THEN 4 ELSE side[MaxOf(offset, -offset)]
  IN [o \in Offsets(Len(side)) |->
        SumFunction([k \in {j \in (-Len(side))..Len(side) : o \in Direction(j)} |-> weight(k)])]

\* The sum of the vector, over which low_pass is normalized.
Weight(side) == 4 * (1 + 2 * SumFunction(side))

Clip(v, high) == MaxOf(0, MinOf(v, high))

\* The levels of a transformed image are multiplied by the weight of its kernel.
Transformed(kernel, scale) ==
  [scale |-> scale,
   levels |-> [y \in Rows(image) |-> [x \in Columns(image) |->
                 Clip(Convolved(image, kernel, y, x), scale * White)]]]

\* gain * (identity - low_pass)
EdgeKernel(side, gain) ==
  [o \in Offsets(Len(side)) |->
     gain * ((IF o = <<0, 0>> THEN Weight(side) ELSE 0) - LowPass(side)[o])]

\* identity + gain * (identity - low_pass)
SharpKernel(side, gain) ==
  [o \in Offsets(Len(side)) |->
     (IF o = <<0, 0>> THEN Weight(side) ELSE 0) + EdgeKernel(side, gain)[o]]

\* apply_image_transform; the generic edge transform, a root of a sum of
\* squares, is left out.
Smoothed ==
  {Transformed(Ones(taps), taps * taps) : taps \in Taps}
  \cup {Transformed(LowPass(side), Weight(side)) : side \in Sides}
Edges == {Transformed(EdgeKernel(side, gain), Weight(side)) : side \in Sides, gain \in Gains}
Sharpened ==
  {Transformed(Sharpening(gain), 1) : gain \in Gains}
  \cup {Transformed(SharpKernel(side, gain), Weight(side)) : side \in Sides, gain \in Gains}

\* transform_record
TransformRecord ==
  Returned("lab_metrics", "empirical_metric", "lab",
           [n \in {"shape_preserved", "output_bounded"} |-> MakeCheck("pass", TRUE)],
           TRUE, [metric_family |-> "image_transform", nulls |-> {}])

Transform(operation, outputs) ==
  /\ ipc = "called"
  /\ output' \in outputs
  /\ result' = TransformRecord
  /\ ipc' = operation
  /\ UNCHANGED <<image, other, window, integral>>

-----------------------------------------------------------------------------
(* Metrics *)

\* mse: the sum of the squared errors.
SquaredError(a, b) ==
  SumFunction([p \in Rows(a) \X Columns(a) |-> (a[p[1]][p[2]] - b[p[1]][p[2]])^2])

\* PSNR is infinite for equal images; GMSD is a NaN when no complete 2x2 block
\* is left by _downsample2.
NotFinite ==
  (IF SquaredError(image, other) = 0 THEN {"PSNR"} ELSE {})
  \cup (IF Height(image) < 2 \/ Width(image) < 2 THEN {"GMSD"} ELSE {})

\* image_metrics_record: _sanitize_metrics writes null for what is not finite.
MetricsRecord ==
  Returned("lab_metrics", "empirical_metric", "lab",
           [n \in {"input_shapes", "metrics_recorded"} |-> MakeCheck("pass", TRUE)],
           TRUE, [metric_family |-> "image_quality", nulls |-> NotFinite])

RecordMetrics ==
  /\ ipc = "filtered"
  /\ result' = MetricsRecord
  /\ ipc' = "done"
  /\ UNCHANGED <<image, other, window, integral, output>>

ImageStep ==
  \/ (StartFilter \/ AccumulateRows \/ Filter) /\ UNCHANGED recordVars
  \/ /\ \/ Transform("smooth", Smoothed) \/ Transform("edge", Edges)
        \/ Transform("sharpen", Sharpened) \/ RecordMetrics
     /\ UNCHANGED <<record, accepted>>

-----------------------------------------------------------------------------
(* Property *)

\* The four corners of the integral image give, for every pixel, the sum over
\* the part of its window that lies in the image (82-103).  Reflection at the
\* edges keeps every smoothing and sharpening of a flat image flat and every
\* edge of it dark, however narrow the image is and whatever the kernel
\* (170-207, 363-415).
ImageArithmeticExact ==
  /\ ipc = "filtered" =>
       \A y \in Rows(image), x \in Columns(image) :
         output[y][x] =
           SumFunction([p \in {q \in Rows(image) \X Columns(image) :
                                2 * MaxOf(q[1] - y, y - q[1]) < window /\ 2 * MaxOf(q[2] - x, x - q[2]) < window}
                          |-> image[p[1]][p[2]]])
  /\ ipc \in {"smooth", "edge", "sharpen"} =>
       \A level \in 0..White :
         (\A y \in Rows(image), x \in Columns(image) : image[y][x] = level) =>
           \A y \in Rows(image), x \in Columns(image) :
             output.levels[y][x] = IF ipc = "edge" THEN 0 ELSE output.scale * level
=============================================================================
