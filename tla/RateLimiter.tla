------------------------------ MODULE RateLimiter ------------------------------
(***************************************************************************)
(* pyxle_auth/ratelimit.py with the calls service.py makes of it: fixed    *)
(* windows, one row per (scope, identifier, window), charged before a      *)
(* sign-in, a sign-up, a user name check or a password reset.  A step is a *)
(* transaction or a statement; SQLite serialises an increment, the servers *)
(* do not, and the model is of the servers.                                *)
(*                                                                         *)
(* An identifier is the sequence of what lies between its colons: the key  *)
(* of a row is scope:identifier:window and reset matches it by prefix, so  *)
(* what matters of its text is which identifiers it is a prefix of.        *)
(***************************************************************************)
EXTENDS Naturals, Sequences, FiniteSets

CONSTANTS Request,     \* concurrent calls
          Address,     \* IP addresses, as sequences
          Account,     \* e-mail addresses or user names, as sequences
          Limit,       \* attempts per window (one number for every scope)
          Calls,       \* the operations that run: a subset of Operation
          LastWindow,  \* bound: windows of bucket_seconds that pass
          MaxCount,    \* bound: a row's count
          MaxBegun     \* bound: sign-ins begun from an address without a right password

\* The buckets each operation charges, in order.
Operation == {"sign_in", "sign_up", "username_available", "request_password_reset"}
Buckets(op, ip, account) ==
    CASE op = "sign_in" -> <<<<"auth:sign-in:ip", ip>>, <<"auth:sign-in:email", account>>>>
      [] op = "sign_up" -> <<<<"auth:sign-up", ip>>>>
      [] op = "username_available" -> <<<<"auth:username-check", ip>>>>
      [] op = "request_password_reset" -> <<<<"pwreset", account>>, <<"pwreset:ip", ip>>>>

Bucket == UNION {{Buckets(op, i, a)[n] : n \in DOMAIN Buckets(op, i, a)} :
                    op \in Calls, i \in Address, a \in Account}
Key == Bucket \X (0 .. LastWindow)

VARIABLES count,     \* a row's count; 0: the table has no such row
          now,       \* the current window
          pc,        \* each call: its next step
          plan,      \* the buckets it has still to charge
          start,     \* the window check_and_increment computed for the first of them
          right,     \* a sign-in's password is the account's
          from,      \* then, the address it comes from until that is reset
          granted,   \* history: attempts allowed since a row was created
          begun,     \* history: sign-ins from an address that were begun, or had still
                     \* to charge it, since a right password from there last reset it
          failed     \* history: calls an IntegrityError escaped from

locals == <<pc, plan, start, right, from>>
vars == <<count, now, locals, granted, begun, failed>>

Charging == {"update", "insert", "retry", "reinsert"}
KeyOf(r) == <<Head(plan[r]), start[r]>>

Init ==
    /\ count = [k \in Key |-> 0] /\ now = 0
    /\ pc = [r \in Request |-> "idle"] /\ plan = [r \in Request |-> <<>>]
    /\ start = [r \in Request |-> 0] /\ from = [r \in Request |-> <<>>]
    /\ right = [r \in Request |-> FALSE]
    /\ granted = [k \in Key |-> 0] /\ begun = [i \in Address |-> 0] /\ failed = {}

Return(r) ==
    /\ pc' = [pc EXCEPT ![r] = "idle"] /\ plan' = [plan EXCEPT ![r] = <<>>]
    /\ start' = [start EXCEPT ![r] = 0] /\ from' = [from EXCEPT ![r] = <<>>]
    /\ right' = [right EXCEPT ![r] = FALSE]

\* The next bucket, in the window of this moment.
Charge(r, buckets) ==
    /\ pc' = [pc EXCEPT ![r] = "update"] /\ plan' = [plan EXCEPT ![r] = buckets]
    /\ start' = [start EXCEPT ![r] = now]

Begin(r, op, ip, account) ==
    /\ pc[r] = "idle"
    /\ Charge(r, Buckets(op, ip, account))
    /\ IF op = "sign_in"
       THEN begun[ip] < MaxBegun /\ begun' = [begun EXCEPT ![ip] = @ + 1]
       ELSE UNCHANGED begun
    /\ \E correct \in (IF op = "sign_in" THEN BOOLEAN ELSE {FALSE}) :
         /\ right' = [right EXCEPT ![r] = correct]
         /\ from' = [from EXCEPT ![r] = IF correct THEN ip ELSE <<>>]
    /\ UNCHANGED <<count, now, granted, failed>>
-----------------------------------------------------------------------------
\* check_and_increment: count <= limit.
Allowed(n) == n <= Limit

\* A full bucket raises RateLimited at once, but for the identifier's bucket of
\* a sign-in: verify_credentials looks at the password first.
Raises(scope) == scope # "auth:sign-in:email"

\* _increment returned n: the caller goes on with its next bucket, with the
\* password, or raises.
Conclude(r, n) ==
    LET scope == Head(plan[r])[1]  rest == Tail(plan[r]) IN
    /\ count' = [count EXCEPT ![KeyOf(r)] = n]
    /\ granted' = [granted EXCEPT ![KeyOf(r)] = IF Allowed(n) THEN @ + 1 ELSE @]
    /\ IF ~Allowed(n) /\ Raises(scope) THEN Return(r)
       ELSE IF rest # <<>> THEN Charge(r, rest) /\ UNCHANGED <<from, right>>
       ELSE IF scope = "auth:sign-in:email"
       THEN /\ pc' = [pc EXCEPT ![r] = "verify"] /\ start' = [start EXCEPT ![r] = 0]
            /\ UNCHANGED <<plan, from, right>>
       ELSE Return(r)

\* _increment_once when the row is there: UPDATE and SELECT under its lock.
Increment(r) ==
    /\ pc[r] \in {"update", "retry"} /\ count[KeyOf(r)] \in 1 .. MaxCount - 1
    /\ Conclude(r, count[KeyOf(r)] + 1)
    /\ UNCHANGED <<now, begun, failed>>

\* _increment_once when the UPDATE matches no row: the INSERT comes next.
MissRow(r) ==
    /\ pc[r] \in {"update", "retry"} /\ count[KeyOf(r)] = 0
    /\ pc' = [pc EXCEPT ![r] = IF @ = "update" THEN "insert" ELSE "reinsert"]
    /\ UNCHANGED <<count, now, plan, start, from, right, granted, begun, failed>>

\* Mutant: the INSERT overwrites a row that another call inserted.
RowFree_Always(r) == TRUE
\* The primary key.
RowFree(r) == count[KeyOf(r)] = 0

\* _increment_once, the INSERT of a row with count 1.
InsertRow(r) ==
    /\ pc[r] \in {"insert", "reinsert"} /\ RowFree(r)
    /\ Conclude(r, 1)
    /\ UNCHANGED <<now, begun, failed>>

\* Another call inserted the row first: IntegrityError, retried once.
LoseInsert(r) ==
    /\ pc[r] \in {"insert", "reinsert"} /\ ~RowFree(r)
    /\ IF pc[r] = "insert"
       THEN pc' = [pc EXCEPT ![r] = "retry"] /\ UNCHANGED <<plan, start, from, right, failed>>
       ELSE Return(r) /\ failed' = failed \cup {r}
    /\ UNCHANGED <<count, now, granted, begun>>
-----------------------------------------------------------------------------
\* DELETE of the rows K.
Drop(K) ==
    /\ count' = [k \in Key |-> IF k \in K THEN 0 ELSE count[k]]
    /\ granted' = [k \in Key |-> IF k \in K THEN 0 ELSE granted[k]]

\* Mutant: only the row of the current window.
Matched_ThisWindow(scope, id) ==
    {k \in Key : k[1] = <<scope, id>> /\ k[2] = now}

\* LIKE 'scope:identifier:%': every window, and every identifier that this one
\* and a colon begin.
Matched(scope, id) ==
    {k \in Key : k[1][1] = scope /\ Len(k[1][2]) >= Len(id) /\ SubSeq(k[1][2], 1, Len(id)) = id}

\* A wrong password: RateLimited or InvalidCredentials, by the identifier's
\* bucket; nothing changes.
WrongPassword(r) ==
    /\ pc[r] = "verify" /\ ~right[r]
    /\ Return(r)
    /\ UNCHANGED <<count, now, granted, begun, failed>>

\* The sign-ins from an address that have still to charge its bucket.
Uncharged(ip) == {r \in Request : plan[r] # <<>> /\ Head(plan[r]) = <<"auth:sign-in:ip", ip>>}

\* A right one resets both buckets, in two statements.
ResetAddress(r) ==
    /\ pc[r] = "verify" /\ right[r]
    /\ Drop(Matched("auth:sign-in:ip", from[r]))
    /\ begun' = [begun EXCEPT ![from[r]] = Cardinality(Uncharged(from[r]))]
    /\ pc' = [pc EXCEPT ![r] = "reset"] /\ from' = [from EXCEPT ![r] = <<>>]
    /\ UNCHANGED <<now, plan, start, right, failed>>

ResetAccount(r) ==
    /\ pc[r] = "reset"
    /\ Drop(Matched("auth:sign-in:email", Head(plan[r])[2]))
    /\ Return(r)
    /\ UNCHANGED <<now, begun, failed>>

\* sweep_expired: rows of windows that have passed.
SweepExpired ==
    /\ \E k \in Key : k[2] < now /\ count[k] > 0
    /\ Drop({k \in Key : k[2] < now})
    /\ UNCHANGED <<now, locals, begun, failed>>

NextWindow ==
    /\ now < LastWindow
    /\ now' = now + 1
    /\ UNCHANGED <<count, locals, granted, begun, failed>>

\* A statement fails or the call is cancelled: its transaction rolls back.  A right
\* password of an account that has still to verify its address ends like this.
Abort(r) ==
    /\ pc[r] # "idle"
    /\ Return(r)
    /\ UNCHANGED <<count, now, granted, begun, failed>>

Next ==
    \/ \E r \in Request :
         \/ \E op \in Calls, ip \in Address, a \in Account : Begin(r, op, ip, a)
         \/ Increment(r) \/ MissRow(r) \/ InsertRow(r) \/ LoseInsert(r)
         \/ WrongPassword(r) \/ ResetAddress(r) \/ ResetAccount(r) \/ Abort(r)
    \/ SweepExpired \/ NextWindow

Spec == Init /\ [][Next]_vars
-----------------------------------------------------------------------------
\* Variables have their types, and a call that charges has a bucket.
TypeOK ==
    /\ count \in [Key -> Nat] /\ granted \in [Key -> Nat]
    /\ now \in 0 .. LastWindow
    /\ pc \in [Request -> Charging \cup {"idle", "verify", "reset"}]
    /\ plan \in [Request -> Seq(Bucket)] /\ start \in [Request -> 0 .. LastWindow]
    /\ from \in [Request -> Address \cup {<<>>}] /\ right \in [Request -> BOOLEAN]
    /\ begun \in [Address -> Nat] /\ failed \subseteq Request
    /\ \A r \in Request : pc[r] = "idle" <=> plan[r] = <<>>

\* Callers that race for a bucket, its first row and its deletion never get
\* more attempts out of it than the limit, and every attempt allowed is in its
\* count ("concurrent callers can't race past the limit", check_and_increment).
NoOvershoot == \A k \in Key : granted[k] = IF count[k] <= Limit THEN count[k] ELSE Limit

\* The step of r is a RateLimited of a sign-in whose password was right.
TurnedAway(r) == right[r] /\ pc[r] \in Charging /\ pc'[r] = "idle" /\ count' # count

\* A right password is turned away only when more than the limit of sign-ins were
\* begun from its own address since a right one from there: no flood of guesses
\* from elsewhere locks the owner out ("can never lock the legitimate owner out",
\* verify_credentials), and a sign-in clears the attempts before it, those of
\* earlier windows too ("isn't locked out by earlier failed attempts", reset).
OwnerIsHeard == [][\A r \in Request : TurnedAway(r) => begun[from[r]] > Limit]_vars

\* Stated, and broken by a reset between a call's two tries: "a single retry
\* takes the UPDATE path" (_increment).
OneRetryIsEnough == failed = {}

\* Stated, and broken by identifiers with a colon, as IPv6 addresses have: an
\* identifier "only ever matches itself" (ratelimit.py, reset).
ResetMatchesItself ==
    \A b \in Bucket : \A k \in Matched(b[1], b[2]) : k[1] = b
=============================================================================
