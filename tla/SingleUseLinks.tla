----------------------------- MODULE SingleUseLinks -----------------------------
(***************************************************************************)
(* What pyxle-auth promises of the links it mails: issuing one is a single *)
(* step that burns at least the links the same caller had mailed before;   *)
(* a link is redeemed in one step, while it is unused, for what it was     *)
(* issued for.  Nothing here says in how many statements, or what a call   *)
(* has read before them.                                                   *)
(***************************************************************************)
EXTENDS Naturals

CONSTANTS Request, User, Token, Purpose, None

VARIABLES row,        \* of each token: whose it is, what for, who issued it
          redeemed,   \* what it was redeemed for, in order
          used        \* the tokens burned, by an issue or a redemption

vars == <<row, redeemed, used>>

Init == /\ row = [t \in Token |-> None]
        /\ redeemed = [t \in Token |-> <<>>]
        /\ used = {}

Links(u, p) == {t \in Token : row[t] # None /\ row[t].user = u /\ row[t].purpose = p}

Issue(r, u, p) ==
    \E t \in Token, burnt \in SUBSET Links(u, p) :
        /\ row[t] = None
        /\ \A s \in Links(u, p) : row[s].by = r => s \in used \cup burnt
        /\ row' = [row EXCEPT ![t] = [user |-> u, purpose |-> p, by |-> r]]
        /\ used' = used \cup burnt
        /\ UNCHANGED redeemed

Redeem(t) ==
    /\ row[t] # None /\ t \notin used
    /\ used' = used \cup {t}
    /\ redeemed' = [redeemed EXCEPT ![t] = <<row[t].purpose>>]
    /\ UNCHANGED row

\* Rows of old links disappear.
Sweep(old) ==
    /\ row' = [t \in Token |-> IF t \in old THEN None ELSE row[t]]
    /\ redeemed' = [t \in Token |-> IF t \in old THEN <<>> ELSE redeemed[t]]
    /\ used' = used \ old

Next == \/ \E old \in SUBSET Token : Sweep(old)
        \/ \E t \in Token : Redeem(t)
        \/ \E r \in Request, u \in User, p \in Purpose : Issue(r, u, p)

Spec == Init /\ [][Next]_vars
=============================================================================
