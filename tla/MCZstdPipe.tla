----------------------------- MODULE MCZstdPipe -----------------------------
(* Small instances of ZstdPipe. *)
EXTENDS ZstdPipe

F(len, ends, bad) == [len |-> len, ends |-> ends, bad |-> bad]

\* None, one and two frames, cut short, damaged, and with a tail that is none;
\* the first three are long enough to be read by the workers.
SomeFiles ==
  {F(10, {4, 10}, {}), F(9, {4}, {}), F(10, {10}, {7}),
   F(0, {}, {}), F(3, {3}, {}), F(5, {3, 5}, {}), F(4, {3}, {}), F(4, {2, 4}, {3})}
=============================================================================
