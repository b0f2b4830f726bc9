-------------------------------- MODULE Auth --------------------------------
(***************************************************************************)
(* Sessions, API keys and the middleware in front of the handlers          *)
(* (internal/auth/session.go, apikey.go, middleware.go).  A request is     *)
(* decided in several steps, a query and what is made of its rows, while   *)
(* other requests, logouts, the sweep and the clock go on.                 *)
(*                                                                         *)
(* The clock runs in units finer than the milliseconds of the table.  The  *)
(* context of an interceptor or of an HTTP request ends like a failed      *)
(* query.  Random tokens and ids do not collide.                           *)
(***************************************************************************)
EXTENDS Integers

CONSTANTS
    Token,      \* session tokens, hex strings
    Key,        \* API keys, strings that begin with "bz_"
    Req,        \* requests
    None,       \* no value
    Res,        \* units of the clock in a millisecond
    TTL,        \* sessionTTL, in these units
    MaxTime     \* bound: time.Now()

ASSUME TimeAssumption == Res \in Nat \ {0} /\ TTL \in Nat /\ MaxTime \in Nat
ASSUME WholeMillis == TTL % Res = 0
ASSUME Disjoint == Token \cap Key = {} /\ None \notin Token \cup Key \cup Int

VARIABLES
    enabled,    \* AuthEnabled
    now,        \* time.Now()
    sessions,   \* sessions[t]: expires_at of its row, or None
    issued,     \* issued[t]: ExpiresAt computed by Create, or None
    stored,     \* tokens whose Create has returned without an error
    keys,       \* api_keys
    req,        \* req[q]: a request in the middleware
    revoked,    \* history: credentials somebody has deleted
    faulty,     \* history: requests that met a failed query
    wasLive,    \* history: requests whose credential held at some moment of
    wasDead     \*          them, and those where it did not

tables == <<sessions, issued, stored, keys, revoked>>
observed == <<wasLive, wasDead>>
vars == <<enabled, now, tables, req, faulty, observed>>

\* A request has its place, its protocol, the Authorization header, what the
\* query of a Validate has returned, and the identity its handler is given.
Header == [bearer : BOOLEAN, token : Token \cup Key \cup {None}]
Undecided == {"arrived", "row", "expired", "rows"}

\* What follows "Bearer ", or nothing.
extractBearer(h) == IF h.bearer THEN h.token ELSE None

Cred(q) == extractBearer(req[q].header)

Init ==
    /\ enabled \in BOOLEAN
    /\ now = 0
    /\ sessions = [t \in Token |-> None]
    /\ issued = [t \in Token |-> None]
    /\ stored = {} /\ keys = {} /\ revoked = {}
    /\ req = [q \in Req |-> [pc |-> "idle", via |-> "http",
                             header |-> [bearer |-> FALSE, token |-> None],
                             row |-> None, rows |-> {}, who |-> None]]
    /\ faulty = {} /\ wasLive = {} /\ wasDead = {}

-----------------------------------------------------------------------------
(* The stores *)

\* Time.UnixMilli and time.UnixMilli.
UnixMilli(t) == t \div Res
FromMilli(ms) == ms * Res

\* Create: the token and its end are made, then the row is inserted, or not.
Create(t) ==
    /\ issued[t] = None
    /\ issued' = [issued EXCEPT ![t] = now + TTL]
    /\ UNCHANGED <<enabled, now, sessions, stored, keys, revoked, req, faulty>>

Insert(t) ==
    /\ issued[t] # None /\ t \notin stored
    /\ sessions' = [sessions EXCEPT ![t] = UnixMilli(issued[t])]
    /\ stored' = stored \cup {t}
    /\ UNCHANGED <<enabled, now, issued, keys, revoked, req, faulty>>

\* SessionStore.Delete, for a token somebody was given.
Delete(t) ==
    /\ t \in stored
    /\ sessions' = [sessions EXCEPT ![t] = None]
    /\ revoked' = revoked \cup {t}
    /\ UNCHANGED <<enabled, now, issued, stored, keys, req, faulty>>

\* The last millisecond is swept too.
MutDeleteExpired ==
    /\ sessions' = [t \in Token |->
         IF sessions[t] # None /\ sessions[t] <= UnixMilli(now) THEN None ELSE sessions[t]]
    /\ UNCHANGED <<enabled, now, issued, stored, keys, revoked, req, faulty>>

DeleteExpired ==
    /\ sessions' = [t \in Token |->
         IF sessions[t] # None /\ sessions[t] < UnixMilli(now) THEN None ELSE sessions[t]]
    /\ UNCHANGED <<enabled, now, issued, stored, keys, revoked, req, faulty>>

\* APIKeyStore.Generate, once for a key, and Delete.
Generate(k) ==
    /\ k \notin keys \cup revoked
    /\ keys' = keys \cup {k}
    /\ UNCHANGED <<enabled, now, sessions, issued, stored, revoked, req, faulty>>

DeleteKey(k) ==
    /\ k \in keys
    /\ keys' = keys \ {k}
    /\ revoked' = revoked \cup {k}
    /\ UNCHANGED <<enabled, now, sessions, issued, stored, req, faulty>>

-----------------------------------------------------------------------------
(* The middleware *)

Arrive(q) ==
    /\ req[q].pc = "idle"
    /\ \E h \in Header, via \in {"http", "grpc"} :
         req' = [req EXCEPT ![q].pc = "arrived", ![q].header = h, ![q].via = via]
    /\ UNCHANGED <<enabled, now, tables, faulty>>

\* The handler is called. Only HTTPMiddleware puts the identity in its context.
Admit(q, who) ==
    req' = [req EXCEPT ![q].pc = "admitted",
                       ![q].who = IF req[q].via = "http" THEN who ELSE None]
Reject(q) == req' = [req EXCEPT ![q].pc = "rejected"]

Unguarded(q) ==
    /\ req[q].pc = "arrived" /\ ~enabled
    /\ Admit(q, None)
    /\ UNCHANGED <<enabled, now, tables, faulty>>

NoToken(q) ==
    /\ req[q].pc = "arrived" /\ enabled
    /\ Cred(q) = None
    /\ Reject(q)
    /\ UNCHANGED <<enabled, now, tables, faulty>>

\* APIKeyStore.Validate: the query fixes the rows, and the slow comparisons
\* come after it. Rows that end early because of an error look like no match.
QueryKeys(q) ==
    /\ req[q].pc = "arrived" /\ enabled
    /\ Cred(q) \in Key
    /\ req' = [req EXCEPT ![q].pc = "rows", ![q].rows = keys]
    /\ UNCHANGED <<enabled, now, tables, faulty>>

CompareKeys(q) ==
    /\ req[q].pc = "rows"
    /\ IF Cred(q) \in req[q].rows THEN Admit(q, Cred(q)) ELSE Reject(q)
    /\ UNCHANGED <<enabled, now, tables, faulty>>

\* SessionStore.Validate: the row, then the clock, then the delete.
SelectSession(q) ==
    /\ req[q].pc = "arrived" /\ enabled
    /\ Cred(q) \in Token
    /\ IF sessions[Cred(q)] = None THEN Reject(q)
       ELSE req' = [req EXCEPT ![q].pc = "row", ![q].row = sessions[Cred(q)]]
    /\ UNCHANGED <<enabled, now, tables, faulty>>

\* A row is good enough.
MutCheckExpiry(q) ==
    /\ req[q].pc = "row"
    /\ Admit(q, Cred(q))
    /\ UNCHANGED <<enabled, now, tables, faulty>>

CheckExpiry(q) ==
    /\ req[q].pc = "row"
    /\ IF now > FromMilli(req[q].row) THEN req' = [req EXCEPT ![q].pc = "expired"]
                                      ELSE Admit(q, Cred(q))
    /\ UNCHANGED <<enabled, now, tables, faulty>>

\* The error of this Delete is dropped.
DropExpired(q) ==
    /\ req[q].pc = "expired"
    /\ \/ sessions' = [sessions EXCEPT ![Cred(q)] = None]
       \/ UNCHANGED sessions
    /\ Reject(q)
    /\ UNCHANGED <<enabled, now, issued, stored, keys, revoked, faulty>>

\* A query or the reading of its rows fails.
QueryFails(q) ==
    /\ \/ req[q].pc = "arrived" /\ enabled /\ Cred(q) # None
       \/ req[q].pc = "rows"
    /\ Reject(q)
    /\ faulty' = faulty \cup {q}
    /\ UNCHANGED <<enabled, now, tables>>

Tick ==
    /\ now < MaxTime
    /\ now' = now + 1
    /\ UNCHANGED <<enabled, tables, req, faulty>>

-----------------------------------------------------------------------------
\* A credential that a check in no time at all would accept.
Live(c) ==
    \/ c \in keys
    \/ c \in Token /\ sessions[c] # None /\ now <= FromMilli(sessions[c])

InProgress(q) == req[q].pc \in Undecided
HoldsNow(q) == InProgress(q) /\ Live(Cred(q))
FailsNow(q) == InProgress(q) /\ ~Live(Cred(q))

\* The history of the requests that are not decided by this step.
Observe ==
    /\ wasLive' = wasLive \cup {q \in Req : HoldsNow(q)'}
    /\ wasDead' = wasDead \cup {q \in Req : FailsNow(q)'}

StoreStep ==
    \/ \E t \in Token : Create(t) \/ Insert(t) \/ Delete(t)
    \/ DeleteExpired
    \/ \E k \in Key : Generate(k) \/ DeleteKey(k)

RequestStep(q) ==
    \/ Arrive(q) \/ Unguarded(q) \/ NoToken(q) \/ QueryKeys(q) \/ CompareKeys(q)
    \/ SelectSession(q) \/ CheckExpiry(q) \/ DropExpired(q) \/ QueryFails(q)

Next == (StoreStep \/ (\E q \in Req : RequestStep(q)) \/ Tick) /\ Observe

Spec == Init /\ [][Next]_vars

-----------------------------------------------------------------------------
(* Properties *)

\* DecisionsRight: with the middleware enabled, a request is let through only
\* if its credential was in its table, and not expired, at some moment between
\* its arrival and the decision, and it is turned away only if at some such
\* moment it was not, or a query failed; although the table is read and judged
\* in separate steps (middleware.go:42-61, session.go:67-81, apikey.go:79-96).
DecisionsRight ==
    \A q \in Req :
      /\ req[q].pc = "admitted" /\ enabled => q \in wasLive
      /\ req[q].pc = "rejected" => q \in wasDead \/ q \in faulty

\* SessionLifetime: a session that nobody revokes is accepted until the
\* millisecond in which the ExpiresAt its client was given falls, and not
\* after that moment, whatever other requests, which delete what they judged
\* expired, and the sweep, which compares milliseconds, do
\* (session.go:51-60, 76-81, 93).
SessionLifetime ==
    \A t \in stored \ revoked :
      /\ Live(t) => now <= issued[t]
      /\ ~Live(t) => now > (issued[t] \div Res) * Res
=============================================================================
