--------------------------- MODULE PermissionSpec ---------------------------
(***************************************************************************)
(* What the permission rules of ueventd promise for device nodes, stated   *)
(* without the list scan that implements it: rules are appended in        *)
(* configuration order; when a device is added, its node gets the owner,   *)
(* group and mode of the LATEST rule that matches its path or one of its   *)
(* links, and root:root 0600 when none does.  A removed device has no      *)
(* node.  How a rule matches a path (exact, prefix, glob) is a parameter.  *)
(***************************************************************************)
EXTENDS Integers, Sequences, FiniteSetsExt

CONSTANTS
  Device,        \* devices that get a node under /dev
  DevPath,       \* the /dev path of each device
  LinkSets,      \* for each device, the link sets an add event may carry
  DevRule,       \* the rules that may be appended
  Matches(_, _)  \* Matches(path, rule): the rule's name matches path

NoNode == [uid |-> -1, gid |-> -1, mode |-> -1]
DefaultOwner == [uid |-> 0, gid |-> 0, mode |-> 384]   \* root:root 0600

VARIABLES rules, node

(* The owner of the latest rule matching the path or a link. *)
Resolved(d, links) ==
  LET hits == {i \in DOMAIN rules :
                 Matches(DevPath[d], rules[i]) \/ \E l \in links : Matches(l, rules[i])}
  IN  IF hits = {} THEN DefaultOwner
      ELSE LET r == rules[Max(hits)] IN [uid |-> r.uid, gid |-> r.gid, mode |-> r.perm]

Init ==
  /\ rules = <<>>
  /\ node = [d \in Device |-> NoNode]

AddRule(r) ==
  /\ rules' = Append(rules, r)
  /\ UNCHANGED node

AddNode(d, links) ==
  /\ node' = [node EXCEPT ![d] = Resolved(d, links)]
  /\ UNCHANGED rules

RemoveNode(d) ==
  /\ node' = [node EXCEPT ![d] = NoNode]
  /\ UNCHANGED rules

Next ==
  \/ \E r \in DevRule : AddRule(r)
  \/ \E d \in Device : \E links \in LinkSets[d] : AddNode(d, links)
  \/ \E d \in Device : RemoveNode(d)

Spec == Init /\ [][Next]_<<rules, node>>

=============================================================================
