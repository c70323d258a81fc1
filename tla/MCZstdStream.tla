----------------------------- MODULE MCZstdStream -----------------------------
(* Values of the constants of ZstdStream for TLC. *)
EXTENDS ZstdStream

\* Nothing to more than the limit, in more than a pipe holds; silent and noisy,
\* good and broken.
MCStreams == [out: 0..6, noise: 0..2, code: {0, 1}]
=============================================================================
