---------------------------- MODULE OrgMembership ----------------------------
(***************************************************************************)
(* What an organization promises its people, whatever requests overlap:    *)
(* nobody joins before accepting an invitation, an invitation works once,  *)
(* nobody's role falls except by a decision about that role, and the last  *)
(* admin stays.  Identity is shown to implement this.                      *)
(***************************************************************************)
EXTENDS Integers

CONSTANTS
    People, Founder,
    Alias           \* the form in which a person's address is invited

VARIABLES
    role,           \* per person, the role held, or "none"
    invited         \* the addresses with an open invitation

Level == [none |-> 0, viewer |-> 1, editor |-> 2, admin |-> 3]
Roles == {"viewer", "editor", "admin"}

Init ==
    /\ role = [p \in People |-> IF p = Founder THEN "admin" ELSE "none"]
    /\ invited = {}

Invite(e) == invited' = invited \cup {e} /\ UNCHANGED role

Withdraw(e) == invited' = invited \ {e} /\ UNCHANGED role

Join(p, r) ==
    /\ role[p] = "none"
    /\ Alias[p] \in invited
    /\ role' = [role EXCEPT ![p] = r]
    /\ invited' = invited \ {Alias[p]}

Raise(p, r) ==
    /\ role[p] # "none"
    /\ Level[role[p]] <= Level[r]
    /\ role' = [role EXCEPT ![p] = r]
    /\ invited' \in {invited, invited \ {Alias[p]}}

(* A demotion or a departure. *)
Demote(p, r) ==
    /\ Level[r] < Level[role[p]]
    /\ \E q \in People : role[q] = "admin" /\ (q = p => role[p] # "admin")
    /\ role' = [role EXCEPT ![p] = r]
    /\ UNCHANGED invited

Next ==
    \/ \E p \in People : Invite(Alias[p]) \/ Withdraw(Alias[p])
    \/ \E p \in People, r \in Roles : Join(p, r) \/ Raise(p, r)
    \/ \E p \in People, r \in Roles \cup {"none"} : Demote(p, r)

Spec == Init /\ [][Next]_<<role, invited>>
=============================================================================
