---------------------------- MODULE MCTreeReader ----------------------------
(***************************************************************************)
(* Instances of TreeReader for TLC.                                        *)
(***************************************************************************)
EXTENDS TreeReader

(***************************************************************************)
(* Either callers read beyond the head or commits fail; Both is both.      *)
(***************************************************************************)
OneOfTwo ==
    { [ahead |-> TRUE, faults |-> {}],
      [ahead |-> FALSE, faults |-> {"io_error", "crash"}] }
Both == { [ahead |-> TRUE, faults |-> {"io_error"}] }
Neither == { [ahead |-> FALSE, faults |-> {}] }
=============================================================================
