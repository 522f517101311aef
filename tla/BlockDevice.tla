---------------------------- MODULE BlockDevice ----------------------------
(***************************************************************************)
(* What a guest may rely on of its disk: the abstract specification that   *)
(* NativeDisk implements.                                                  *)
(*                                                                         *)
(* known[b] is the set of contents block b can have as far as its answers  *)
(* tell: one value, except after a write whose outcome is uncertain.  A    *)
(* read settles the uncertainty: what it returns is the content from then  *)
(* on.  safe[b] is what a restart after an abrupt termination may find:    *)
(* the content at the last acknowledged flush, or anything written since.  *)
(***************************************************************************)
CONSTANTS Blocks, Values, Image

VARIABLES known, safe

vars == << known, safe >>

Init ==
  /\ known = [b \in Blocks |-> {Image[b]}]
  /\ safe = known

(* A write is on its way: from here on it may have reached the disk.       *)
BeginWrite(range, v) ==
  /\ known' = [b \in Blocks |-> IF b \in range THEN known[b] \cup {v} ELSE known[b]]
  /\ safe' = [b \in Blocks |-> IF b \in range THEN safe[b] \cup {v} ELSE safe[b]]

(* An acknowledged write is the content of its blocks; an error answer     *)
(* changes nothing.                                                        *)
AckWrite(range, v) ==
  /\ known' = [b \in Blocks |-> IF b \in range THEN {v} ELSE known[b]]
  /\ UNCHANGED safe

(* A read returns possible contents and makes them certain.                *)
AckRead(range, data) ==
  /\ \A b \in range : data[b] \in known[b]
  /\ known' = [b \in Blocks |-> IF b \in range THEN {data[b]} ELSE known[b]]
  /\ UNCHANGED safe

(* An acknowledged flush makes the current contents safe.                  *)
AckFlush ==
  /\ safe' = known
  /\ UNCHANGED known

(* An abrupt termination leaves safe contents.                             *)
Crash ==
  \E image \in [Blocks -> Values] :
    /\ \A b \in Blocks : image[b] \in safe[b]
    /\ known' = [b \in Blocks |-> {image[b]}]
    /\ safe' = known'
  
Next ==
  \/ \E range \in SUBSET Blocks, v \in Values :
       BeginWrite(range, v) \/ AckWrite(range, v)
  \/ \E range \in SUBSET Blocks : \E data \in [range -> Values] :
       AckRead(range, data)
  \/ AckFlush
  \/ Crash

Spec == Init /\ [][Next]_vars
=============================================================================
