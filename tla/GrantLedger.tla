----------------------------- MODULE GrantLedger -----------------------------
(***************************************************************************)
(* What the credential store promises, with every operation one step and   *)
(* no clock, locks or requests: a code is good once, a grant has one live  *)
(* token at a time, and ending a session closes all it ever granted.       *)
(***************************************************************************)
CONSTANTS Session, Code, Member, Null

VARIABLES
  session,  \* none, open or ended
  code,     \* none, fresh or spent
  owner,    \* the session a code was issued in
  grant,    \* what a redeemed code gave: none, open or closed
  token,    \* none, live or retired
  source    \* the code whose grant a token belongs to

ledger == <<session, code, owner, grant, token, source>>

Init ==
  /\ session = [s \in Session |-> "none"]
  /\ code = [c \in Code |-> "none"]
  /\ owner = [c \in Code |-> Null]
  /\ grant = [c \in Code |-> "none"]
  /\ token = [m \in Member |-> "none"]
  /\ source = [m \in Member |-> Null]

OpenSession(s) ==
  /\ session[s] = "none"
  /\ session' = [session EXCEPT ![s] = "open"]
  /\ UNCHANGED <<code, owner, grant, token, source>>

Authorize(s, c) ==
  /\ session[s] = "open" /\ code[c] = "none"
  /\ code' = [code EXCEPT ![c] = "fresh"]
  /\ owner' = [owner EXCEPT ![c] = s]
  /\ UNCHANGED <<session, grant, token, source>>

Spend(c) ==
  /\ code[c] = "fresh" /\ session[owner[c]] = "open"
  /\ code' = [code EXCEPT ![c] = "spent"]

Redeem(c) == Spend(c) /\ UNCHANGED <<session, owner, grant, token, source>>

RedeemOffline(c, m) ==
  /\ Spend(c)
  /\ grant[c] = "none" /\ token[m] = "none"
  /\ grant' = [grant EXCEPT ![c] = "open"]
  /\ token' = [token EXCEPT ![m] = "live"]
  /\ source' = [source EXCEPT ![m] = c]
  /\ UNCHANGED <<session, owner>>

Rotate(m, n) ==
  /\ token[m] = "live" /\ token[n] = "none"
  /\ grant[source[m]] = "open" /\ session[owner[source[m]]] = "open"
  /\ token' = [token EXCEPT ![m] = "retired", ![n] = "live"]
  /\ source' = [source EXCEPT ![n] = source[m]]
  /\ UNCHANGED <<session, code, owner, grant>>

Close(c) ==
  /\ grant[c] = "open"
  /\ grant' = [grant EXCEPT ![c] = "closed"]
  /\ UNCHANGED <<session, code, owner, token, source>>

EndSession(s) ==
  /\ session[s] = "open"
  /\ session' = [session EXCEPT ![s] = "ended"]
  /\ grant' = [c \in Code |-> IF owner[c] = s /\ grant[c] = "open"
                              THEN "closed" ELSE grant[c]]
  /\ UNCHANGED <<code, owner, token, source>>

Next ==
  \/ \E s \in Session : OpenSession(s) \/ EndSession(s)
  \/ \E s \in Session, c \in Code : Authorize(s, c)
  \/ \E c \in Code : Redeem(c) \/ Close(c)
  \/ \E c \in Code, m \in Member : RedeemOffline(c, m)
  \/ \E m, n \in Member : Rotate(m, n)

Spec == Init /\ [][Next]_ledger

=============================================================================
