---------------------------- MODULE ZstdPromise ----------------------------
(***************************************************************************)
(* What process_reddit_data may rely on when it runs "zstd -cdq file" and  *)
(* reads its standard output: the decompressed file, in order and without  *)
(* a gap, and an exit status that says "whole" only of a whole file.       *)
(* ZstdPipe implements it.                                                 *)
(*                                                                         *)
(* A file is its length in units, the units at which its frames end, and   *)
(* the units that are damaged.  Each unit stands for the bytes it          *)
(* decompresses to.                                                        *)
(***************************************************************************)
EXTENDS Naturals, Sequences

CONSTANT
  Files       \* the files that may be given

FileOK(f) ==
  /\ f.len \in Nat
  /\ f.ends \subseteq 1..f.len
  /\ f.bad \subseteq 1..f.len

ASSUME FilesAssumption == \A f \in Files : FileOK(f)

VARIABLES
  file,       \* the file the program is given
  out,        \* the units written to standard output
  status      \* "running", the exit code "0" or "1", or "died"

promise == <<file, out, status>>

Units(a, b) == [i \in 1..(b - a) |-> a + i]

\* One frame at least, the last one complete, and no damage.
Intact(f) == f.len \in f.ends /\ f.bad = {}

PromiseInit ==
  /\ file \in Files
  /\ out = <<>>
  /\ status = "running"

Write ==
  /\ status = "running"
  /\ \E n \in Len(out)..file.len : out' = Units(0, n)
  /\ UNCHANGED <<file, status>>

Exit(code) ==
  /\ status = "running"
  /\ code = "0" => Intact(file) /\ out = Units(0, file.len)
  /\ status' = code
  /\ UNCHANGED <<file, out>>

PromiseNext == Write \/ \E code \in {"0", "1", "died"} : Exit(code)

PromiseSpec == PromiseInit /\ [][PromiseNext]_promise
=============================================================================
