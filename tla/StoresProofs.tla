---------------------------- MODULE StoresProofs ----------------------------
(***************************************************************************)
(* The stores: the middleware's decisions and the life of a session, the   *)
(* artifact stores, the secret backends, which keep the promise of         *)
(* SecretStore, and the way of a secret to a command.  They share nothing: *)
(* each part stands by itself.                                             *)
(***************************************************************************)
EXTENDS Auth, Secrets, Artifacts, SecretBackends, FiniteSetTheorems,
        SequenceTheorems, WellFoundedInduction, TLAPS

-----------------------------------------------------------------------------
(* Sessions and keys: the inductive invariant *)

AuthPlace == Undecided \cup {"idle", "admitted", "rejected"}
Identity == Token \cup Key \cup {None}

RequestState == [pc : AuthPlace, via : {"http", "grpc"}, header : Header,
                 row : Int \cup {None}, rows : SUBSET Key, who : Identity]

AuthTypeOK ==
    /\ enabled \in BOOLEAN /\ now \in Nat
    /\ sessions \in [Token -> Int \cup {None}]
    /\ issued \in [Token -> Nat \cup {None}]
    /\ stored \subseteq Token /\ keys \subseteq Key
    /\ req \in [Req -> RequestState]
    /\ faulty \subseteq Req /\ wasLive \subseteq Req /\ wasDead \subseteq Req

\* A row has the millisecond of the end that was issued, and one that is gone
\* without a logout is past it.
SessionRow(t) ==
    /\ t \in stored => issued[t] # None
    /\ sessions[t] # None =>
         t \in stored /\ issued[t] # None /\ sessions[t] = UnixMilli(issued[t])
    /\ t \in stored \ revoked /\ sessions[t] = None =>
         now > FromMilli(UnixMilli(issued[t]))

\* What a request has read, and what was seen of its credential by then.
RequestInv(q) ==
    /\ req[q].pc \in {"row", "expired"} =>
         /\ Cred(q) \in Token /\ issued[Cred(q)] # None
         /\ req[q].row = UnixMilli(issued[Cred(q)])
    /\ req[q].pc = "row" /\ now <= FromMilli(req[q].row) => q \in wasLive
    /\ req[q].pc = "expired" => now > FromMilli(req[q].row) /\ q \in wasDead
    /\ req[q].pc = "rows" => IF Cred(q) \in req[q].rows THEN q \in wasLive
                                                        ELSE q \in wasDead
    /\ req[q].pc = "admitted" /\ enabled => q \in wasLive
    /\ req[q].pc = "rejected" => q \in wasDead \/ q \in faulty

\* The history knows how a credential stands while it is being judged.
Witnessed(q) ==
    InProgress(q) => IF Live(Cred(q)) THEN q \in wasLive ELSE q \in wasDead

AuthInv ==
    /\ AuthTypeOK
    /\ \A t \in Token : SessionRow(t)
    /\ \A q \in Req : RequestInv(q) /\ Witnessed(q)

-----------------------------------------------------------------------------
(* Sessions and keys: lemmas *)

\* The last moment of a millisecond's beginning is not after it, and the next
\* millisecond is.
LEMMA Millis ==
    ASSUME NEW n \in Nat
    PROVE  /\ UnixMilli(n) \in Nat
           /\ FromMilli(UnixMilli(n)) \in Nat
           /\ FromMilli(UnixMilli(n)) <= n
           /\ FromMilli(UnixMilli(n)) = (n \div Res) * Res
           /\ \A m \in Nat : UnixMilli(n) < UnixMilli(m) =>
                               FromMilli(UnixMilli(n)) < m
BY TimeAssumption DEF UnixMilli, FromMilli

\* A credential is a token, a key or nothing.
LEMMA CredType ==
    ASSUME AuthTypeOK, NEW q \in Req
    PROVE  Cred(q) \in Token \cup Key \cup {None}
<1>1. req[q].header \in Header
  BY DEF AuthTypeOK, RequestState
<1> QED
  BY <1>1 DEF Cred, extractBearer, Header

\* Only the request that moves is changed, and only an arrival changes what it
\* has in its header.
LEMMA RequestMoves ==
    ASSUME AuthTypeOK, NEW p \in Req, RequestStep(p)
    PROVE  /\ req' \in [Req -> RequestState]
           /\ \A q \in Req \ {p} : req'[q] = req[q]
           /\ \/ req[p].pc = "idle" /\ req'[p].pc = "arrived"
              \/ req'[p].header = req[p].header
<1> DEFINE Proto == {"http", "grpc"}
           Row == Int \cup {None}
           Rows == SUBSET Key
<1>t. req \in [Req -> [pc : AuthPlace, via : Proto, header : Header,
                       row : Row, rows : Rows, who : Identity]]
  BY DEF AuthTypeOK, RequestState
<1>g. RequestState = [pc : AuthPlace, via : Proto, header : Header,
                      row : Row, rows : Rows, who : Identity]
  BY DEF RequestState
<1>p. /\ "arrived" \in AuthPlace /\ "row" \in AuthPlace /\ "expired" \in AuthPlace
      /\ "rows" \in AuthPlace /\ "admitted" \in AuthPlace /\ "rejected" \in AuthPlace
  BY DEF AuthPlace, Undecided
<1>i. Cred(p) \in Identity /\ None \in Identity /\ keys \in Rows
  BY CredType DEF Identity, AuthTypeOK
<1>o. Cred(p) \in Token => sessions[Cred(p)] \in Row
  BY DEF AuthTypeOK
<1> HIDE DEF Proto, Row, Rows
<1>1. CASE Arrive(p)
  <2>1. PICK h \in Header, via \in Proto :
          req' = [req EXCEPT ![p].pc = "arrived", ![p].header = h, ![p].via = via]
    BY <1>1 DEF Arrive, Proto
  <2>2. req[p].pc = "idle"
    BY <1>1 DEF Arrive
  <2> QED
    BY <1>t, <1>g, <1>p, <2>1, <2>2
<1>2. ASSUME NEW who \in Identity, Admit(p, who)
      PROVE  /\ req' \in [Req -> RequestState]
             /\ \A q \in Req \ {p} : req'[q] = req[q]
             /\ req'[p].header = req[p].header
  <2>1. PICK id \in Identity : req' = [req EXCEPT ![p].pc = "admitted", ![p].who = id]
    BY <1>2, <1>i DEF Admit
  <2> QED
    BY <1>t, <1>g, <1>p, <2>1
<1>3. ASSUME NEW pc \in AuthPlace, req' = [req EXCEPT ![p].pc = pc]
      PROVE  /\ req' \in [Req -> RequestState]
             /\ \A q \in Req \ {p} : req'[q] = req[q]
             /\ req'[p].header = req[p].header
  BY <1>t, <1>g, <1>3
<1>4. CASE Unguarded(p)
  BY <1>2, <1>4, <1>i DEF Unguarded
<1>5. CASE CompareKeys(p)
  BY <1>2, <1>3, <1>5, <1>i, <1>p DEF CompareKeys, Reject
<1>6. CASE NoToken(p) \/ DropExpired(p) \/ QueryFails(p)
  BY <1>3, <1>6, <1>p DEF NoToken, DropExpired, QueryFails, Reject
<1>7. CASE QueryKeys(p)
  <2>1. req' = [req EXCEPT ![p].pc = "rows", ![p].rows = keys]
    BY <1>7 DEF QueryKeys
  <2> QED
    BY <1>t, <1>g, <1>p, <1>i, <2>1
<1>8. CASE SelectSession(p)
  <2>1. CASE Reject(p)
    BY <1>3, <1>p, <2>1 DEF Reject
  <2>2. CASE req' = [req EXCEPT ![p].pc = "row", ![p].row = sessions[Cred(p)]]
    <3>1. sessions[Cred(p)] \in Row
      BY <1>8, <1>o DEF SelectSession
    <3> QED
      BY <1>t, <1>g, <1>p, <2>2, <3>1
  <2> QED
    BY <1>8, <2>1, <2>2 DEF SelectSession
<1>9. CASE CheckExpiry(p)
  BY <1>2, <1>3, <1>9, <1>i, <1>p DEF CheckExpiry
<1> QED
  BY <1>1, <1>4, <1>5, <1>6, <1>7, <1>8, <1>9 DEF RequestStep

\* Where the request that moves gets to, and from where.
LEMMA RequestGoes ==
    ASSUME AuthTypeOK, NEW p \in Req, RequestStep(p)
    PROVE  \/ Arrive(p) /\ req'[p].pc = "arrived"
           \/ Unguarded(p) /\ ~enabled /\ req'[p].pc = "admitted"
           \/ /\ NoToken(p) /\ req[p].pc = "arrived" /\ Cred(p) = None
              /\ req'[p].pc = "rejected"
           \/ /\ QueryKeys(p) /\ Cred(p) \in Key
              /\ req'[p].pc = "rows" /\ req'[p].rows = keys
           \/ /\ CompareKeys(p) /\ req[p].pc = "rows"
              /\ req'[p].pc = IF Cred(p) \in req[p].rows THEN "admitted" ELSE "rejected"
           \/ /\ SelectSession(p) /\ req[p].pc = "arrived" /\ Cred(p) \in Token
              /\ IF sessions[Cred(p)] = None THEN req'[p].pc = "rejected"
                 ELSE req'[p].pc = "row" /\ req'[p].row = sessions[Cred(p)]
           \/ /\ CheckExpiry(p) /\ req[p].pc = "row"
              /\ req'[p].pc = IF now > FromMilli(req[p].row) THEN "expired"
                                                             ELSE "admitted"
              /\ req'[p].row = req[p].row
           \/ DropExpired(p) /\ req[p].pc = "expired" /\ req'[p].pc = "rejected"
           \/ QueryFails(p) /\ p \in faulty' /\ req'[p].pc = "rejected"
<1> USE DEF AuthTypeOK, RequestState
<1>1. CASE Arrive(p)
  <2>1. PICK h \in Header, via \in {"http", "grpc"} :
          req' = [req EXCEPT ![p].pc = "arrived", ![p].header = h, ![p].via = via]
    BY <1>1 DEF Arrive
  <2> QED
    BY <1>1, <2>1
<1>2. CASE Unguarded(p)
  BY <1>2 DEF Unguarded, Admit
<1>3. CASE NoToken(p)
  BY <1>3 DEF NoToken, Reject
<1>4. CASE QueryKeys(p)
  BY <1>4 DEF QueryKeys
<1>5. CASE CompareKeys(p)
  BY <1>5 DEF CompareKeys, Admit, Reject
<1>6. CASE SelectSession(p)
  BY <1>6 DEF SelectSession, Reject
<1>7. CASE CheckExpiry(p)
  BY <1>7 DEF CheckExpiry, Admit
<1>8. CASE DropExpired(p)
  BY <1>8 DEF DropExpired, Reject
<1>9. CASE QueryFails(p)
  BY <1>9 DEF QueryFails, Reject
<1> QED
  BY <1>1, <1>2, <1>3, <1>4, <1>5, <1>6, <1>7, <1>8, <1>9 DEF RequestStep

\* The invariant holds before anything is stored or asked.
LEMMA AuthInvInit == Init => AuthInv
<1> SUFFICES ASSUME Init PROVE AuthInv
  OBVIOUS
<1> USE DEF Init
<1>1. AuthTypeOK
  <2>1. [bearer |-> FALSE, token |-> None] \in Header
    BY DEF Header
  <2> HIDE DEF Header
  <2> QED
    BY <2>1 DEF AuthTypeOK, RequestState, AuthPlace, Undecided, Identity
<1>2. \A t \in Token : SessionRow(t)
  BY DEF SessionRow
<1>3. \A q \in Req : RequestInv(q) /\ Witnessed(q)
  BY DEF RequestInv, Witnessed, InProgress, Undecided
<1> QED
  BY <1>1, <1>2, <1>3 DEF AuthInv

\* A step of the stores or of the clock leaves the requests alone, and one of a
\* request leaves the clock and all tables but the sessions.
LEMMA AuthFrame ==
    ASSUME NEW p \in Req
    PROVE  /\ StoreStep \/ Tick => req' = req /\ faulty' = faulty
           /\ StoreStep \/ RequestStep(p) => now' = now
           /\ RequestStep(p) => /\ UNCHANGED <<issued, stored, keys, revoked>>
                                /\ faulty' = faulty \/ faulty' = faulty \cup {p}
           /\ RequestStep(p) /\ ~DropExpired(p) => sessions' = sessions
           /\ StoreStep \/ Tick \/ RequestStep(p) => enabled' = enabled
<1> USE DEF tables
<1>1. StoreStep => req' = req /\ faulty' = faulty /\ now' = now /\ enabled' = enabled
  BY DEF StoreStep, Create, Insert, Delete, DeleteExpired, Generate, DeleteKey
<1>2. Tick => req' = req /\ faulty' = faulty /\ enabled' = enabled
  BY DEF Tick
<1>3. ASSUME RequestStep(p)
      PROVE  /\ now' = now /\ enabled' = enabled
             /\ UNCHANGED <<issued, stored, keys, revoked>>
             /\ faulty' = faulty \/ faulty' = faulty \cup {p}
             /\ ~DropExpired(p) => sessions' = sessions
  BY <1>3 DEF RequestStep, Arrive, Unguarded, NoToken, QueryKeys, CompareKeys,
     SelectSession, CheckExpiry, DropExpired, QueryFails
<1> QED
  BY <1>1, <1>2, <1>3

\* Types are preserved.
LEMMA AuthTypeStep ==
    ASSUME AuthTypeOK, Next
    PROVE  AuthTypeOK'
<1>1. wasLive' \subseteq Req /\ wasDead' \subseteq Req
  BY DEF Next, Observe, AuthTypeOK
<1>2. CASE StoreStep
  <2>1. /\ sessions' \in [Token -> Int \cup {None}]
        /\ issued' \in [Token -> Nat \cup {None}]
        /\ stored' \subseteq Token /\ keys' \subseteq Key
    <3> USE DEF AuthTypeOK
    <3>1. ASSUME NEW t \in Token, Create(t) \/ Insert(t) \/ Delete(t)
          PROVE  /\ sessions' \in [Token -> Int \cup {None}]
                 /\ issued' \in [Token -> Nat \cup {None}]
                 /\ stored' \subseteq Token /\ keys' \subseteq Key
      <4>1. now + TTL \in Nat
        BY TimeAssumption
      <4>2. issued[t] # None => UnixMilli(issued[t]) \in Int
        BY Millis
      <4> QED
        BY <3>1, <4>1, <4>2 DEF Create, Insert, Delete
    <3>2. CASE DeleteExpired
      BY <3>2 DEF DeleteExpired
    <3>3. ASSUME NEW k \in Key, Generate(k) \/ DeleteKey(k)
          PROVE  /\ sessions' \in [Token -> Int \cup {None}]
                 /\ issued' \in [Token -> Nat \cup {None}]
                 /\ stored' \subseteq Token /\ keys' \subseteq Key
      BY <3>3 DEF Generate, DeleteKey
    <3> QED
      BY <1>2, <3>1, <3>2, <3>3 DEF StoreStep
  <2>2. UNCHANGED <<enabled, now, req, faulty>>
    BY <1>2 DEF StoreStep, Create, Insert, Delete, DeleteExpired, Generate, DeleteKey
  <2> QED
    BY <1>1, <2>1, <2>2 DEF AuthTypeOK
<1>3. ASSUME NEW p \in Req, RequestStep(p) PROVE AuthTypeOK'
  <2>1. req' \in [Req -> RequestState]
    BY <1>3, RequestMoves
  <2>2. sessions' \in [Token -> Int \cup {None}]
    <3>1. CASE DropExpired(p)
      BY <3>1 DEF DropExpired, AuthTypeOK
    <3> QED
      BY <1>3, <3>1, AuthFrame DEF AuthTypeOK
  <2> QED
    BY <1>1, <1>3, <2>1, <2>2, AuthFrame DEF AuthTypeOK
<1>4. CASE Tick
  BY <1>1, <1>4 DEF Tick, tables, AuthTypeOK
<1> QED
  BY <1>2, <1>3, <1>4 DEF Next

\* The history is kept up to date.
LEMMA HistoryKept ==
    ASSUME AuthTypeOK, Observe, NEW q \in Req
    PROVE  /\ Witnessed(q)'
           /\ q \in wasLive => q \in wasLive'
           /\ q \in wasDead => q \in wasDead'
<1>1. Witnessed(q)'
  BY DEF Observe, Witnessed, HoldsNow, FailsNow
<1>2. wasLive \subseteq wasLive' /\ wasDead \subseteq wasDead'
  BY DEF Observe
<1> QED
  BY <1>1, <1>2

\* What is known of a session's row is preserved.
LEMMA SessionRowStep ==
    ASSUME AuthInv, Next, NEW t \in Token
    PROVE  SessionRow(t)'
<1> USE DEF AuthInv, SessionRow
<1>t. AuthTypeOK
  OBVIOUS
<1>i. issued[t] # None => /\ UnixMilli(issued[t]) \in Nat
                          /\ FromMilli(UnixMilli(issued[t])) \in Nat
                          /\ None # UnixMilli(issued[t])
  BY Millis, Disjoint DEF AuthTypeOK
<1>1. ASSUME NEW u \in Token, Create(u) PROVE SessionRow(t)'
  BY <1>1, TimeAssumption DEF Create, AuthTypeOK
<1>2. ASSUME NEW u \in Token, Insert(u) PROVE SessionRow(t)'
  BY <1>2, <1>i DEF Insert, AuthTypeOK
<1>3. ASSUME NEW u \in Token, Delete(u) PROVE SessionRow(t)'
  BY <1>3 DEF Delete, AuthTypeOK
<1>4. ASSUME DeleteExpired PROVE SessionRow(t)'
  <2>1. sessions[t] # None /\ sessions[t] < UnixMilli(now) =>
          now > FromMilli(UnixMilli(issued[t]))
    <3> SUFFICES ASSUME sessions[t] # None, sessions[t] < UnixMilli(now)
                 PROVE  now > FromMilli(UnixMilli(issued[t]))
      OBVIOUS
    <3>1. issued[t] \in Nat /\ now \in Nat /\ UnixMilli(issued[t]) < UnixMilli(now)
      BY DEF AuthTypeOK
    <3> QED
      BY <3>1, <1>i, Millis
  <2>2. UNCHANGED <<issued, stored, revoked, now>>
    BY <1>4 DEF DeleteExpired
  <2>3. sessions'[t] = IF sessions[t] # None /\ sessions[t] < UnixMilli(now)
                         THEN None ELSE sessions[t]
    BY <1>4 DEF DeleteExpired
  <2> HIDE DEF AuthInv
  <2>4. SessionRow(t)
    BY DEF AuthInv
  <2> QED
    BY <2>1, <2>2, <2>3, <2>4 DEF UnixMilli, FromMilli
<1>5. ASSUME NEW k \in Key, Generate(k) \/ DeleteKey(k) PROVE SessionRow(t)'
  BY <1>5, Disjoint DEF Generate, DeleteKey, UnixMilli, FromMilli
<1>6. ASSUME NEW p \in Req, RequestStep(p) PROVE SessionRow(t)'
  <2>1. CASE DropExpired(p)
    <3>1. Cred(p) \in Token /\ now > FromMilli(UnixMilli(issued[Cred(p)]))
      BY <2>1, <1>6 DEF DropExpired, RequestInv
    <3>2. UNCHANGED <<issued, stored, revoked, now>>
      BY <2>1 DEF DropExpired
    <3>3. \/ sessions' = [sessions EXCEPT ![Cred(p)] = None]
          \/ sessions' = sessions
      BY <2>1 DEF DropExpired
    <3>4. SessionRow(t)
      OBVIOUS
    <3> QED
      BY <3>1, <3>2, <3>3, <3>4 DEF UnixMilli, FromMilli, AuthTypeOK
  <2>2. CASE ~DropExpired(p)
    BY <1>6, <2>2, AuthFrame DEF UnixMilli, FromMilli
  <2> QED
    BY <2>1, <2>2
<1>7. ASSUME Tick PROVE SessionRow(t)'
  <2>1. SessionRow(t) /\ now' = now + 1 /\ now \in Nat
    BY <1>7 DEF Tick, AuthTypeOK
  <2>2. UNCHANGED <<sessions, issued, stored, revoked>>
    BY <1>7 DEF Tick, tables
  <2>3. t \in stored => FromMilli(UnixMilli(issued[t])) \in Nat
    BY <1>i
  <2> QED
    BY <2>1, <2>2, <2>3 DEF UnixMilli, FromMilli
<1> QED
  BY <1>1, <1>2, <1>3, <1>4, <1>5, <1>6, <1>7 DEF Next, StoreStep

\* What a request has read, and what was seen by then, is preserved by a step of
\* another actor: it only adds to what was seen.
LEMMA RequestInvFrame ==
    ASSUME AuthInv, Next, NEW q \in Req, req'[q] = req[q], enabled' = enabled,
           faulty \subseteq faulty', now <= now',
           \A t \in Token : issued[t] # None => issued'[t] = issued[t]
    PROVE  RequestInv(q)'
<1>1. RequestInv(q) /\ AuthTypeOK
  BY DEF AuthInv
<1>2. Cred(q)' = Cred(q)
  BY DEF Cred
<1>3. /\ q \in wasLive => q \in wasLive'
      /\ q \in wasDead => q \in wasDead'
  BY <1>1, HistoryKept DEF Next
<1>4. /\ req[q].pc \in {"row", "expired"} =>
           issued'[Cred(q)] # None /\ FromMilli(req[q].row) \in Nat
      /\ now' \in Nat /\ now \in Nat
  BY <1>1, AuthTypeStep, Millis, Disjoint DEF RequestInv, AuthTypeOK
<1> QED
  BY <1>1, <1>2, <1>3, <1>4 DEF RequestInv, UnixMilli, FromMilli

\* It is preserved for the request that moves.
LEMMA RequestInvMoves ==
    ASSUME AuthInv, Next, NEW q \in Req, RequestStep(q)
    PROVE  RequestInv(q)'
<1>t. AuthTypeOK /\ RequestInv(q) /\ Witnessed(q)
  BY DEF AuthInv
<1>a. UNCHANGED <<issued, stored, keys, revoked, now, enabled>>
  BY AuthFrame
<1>w. /\ q \in wasLive => q \in wasLive'
      /\ q \in wasDead => q \in wasDead'
      /\ Witnessed(q)'
  BY <1>t, HistoryKept DEF Next
<1>h. req[q].pc # "idle" => Cred(q)' = Cred(q)
  BY <1>t, RequestMoves DEF Cred
<1>f. faulty \subseteq faulty'
  BY AuthFrame
<1>r. \A t \in Token : sessions[t] # None =>
        /\ issued[t] # None /\ sessions[t] = UnixMilli(issued[t])
        /\ sessions[t] \in Nat /\ FromMilli(sessions[t]) \in Nat
  BY Millis DEF AuthInv, SessionRow, AuthTypeOK
<1>d. ~Live(None) /\ \A t \in Token : t \notin keys
  BY <1>t, Disjoint DEF Live, AuthTypeOK
<1>1. CASE Arrive(q) /\ req'[q].pc = "arrived"
  BY <1>1 DEF RequestInv
<1>2. CASE Unguarded(q) /\ ~enabled /\ req'[q].pc = "admitted"
  BY <1>2, <1>a DEF RequestInv
<1>3. CASE /\ NoToken(q) /\ req[q].pc = "arrived" /\ Cred(q) = None
           /\ req'[q].pc = "rejected"
  BY <1>3, <1>t, <1>w, <1>d DEF RequestInv, Witnessed, InProgress, Undecided
<1>4. CASE /\ QueryKeys(q) /\ Cred(q) \in Key
           /\ req'[q].pc = "rows" /\ req'[q].rows = keys
  <2>1. Cred(q)' = Cred(q) /\ keys' = keys /\ Cred(q) \notin Token
    BY <1>4, <1>h, <1>a, Disjoint DEF QueryKeys
  <2>2. Live(Cred(q))' <=> Cred(q) \in keys
    BY <2>1 DEF Live
  <2> QED
    BY <1>4, <1>w, <2>1, <2>2 DEF RequestInv, Witnessed, InProgress, Undecided
<1>5. CASE /\ CompareKeys(q) /\ req[q].pc = "rows"
           /\ req'[q].pc = IF Cred(q) \in req[q].rows THEN "admitted" ELSE "rejected"
  BY <1>5, <1>t, <1>w DEF RequestInv
<1>6. CASE /\ SelectSession(q) /\ req[q].pc = "arrived" /\ Cred(q) \in Token
           /\ IF sessions[Cred(q)] = None THEN req'[q].pc = "rejected"
              ELSE req'[q].pc = "row" /\ req'[q].row = sessions[Cred(q)]
  <2>1. /\ Cred(q)' = Cred(q) /\ keys' = keys /\ Cred(q) \notin keys
        /\ sessions' = sessions /\ now' = now /\ issued' = issued
    BY <1>6, <1>h, <1>a, <1>d DEF SelectSession, tables
  <2>2. Live(Cred(q)) <=> Live(Cred(q))'
    BY <2>1 DEF Live
  <2>3. CASE sessions[Cred(q)] = None
    <3>1. ~Live(Cred(q))
      BY <2>1, <2>3 DEF Live
    <3> QED
      BY <1>6, <1>t, <1>w, <2>3, <3>1 DEF RequestInv, Witnessed, InProgress, Undecided
  <2>4. CASE sessions[Cred(q)] # None
    <3>1. Live(Cred(q))' <=> now' <= FromMilli(req'[q].row)
      BY <1>6, <2>1, <2>4 DEF Live, FromMilli
    <3>2. now' <= FromMilli(req'[q].row) => q \in wasLive'
      BY <1>6, <1>w, <2>4, <3>1 DEF Witnessed, InProgress, Undecided
    <3> QED
      BY <1>6, <1>r, <2>1, <2>4, <3>2 DEF RequestInv, UnixMilli, FromMilli
  <2> QED
    BY <2>3, <2>4
<1>7. CASE /\ CheckExpiry(q) /\ req[q].pc = "row"
           /\ req'[q].pc = IF now > FromMilli(req[q].row) THEN "expired" ELSE "admitted"
           /\ req'[q].row = req[q].row
  <2>1. /\ Cred(q)' = Cred(q) /\ Cred(q) \in Token /\ Cred(q) \notin keys
        /\ issued[Cred(q)] # None /\ req[q].row = UnixMilli(issued[Cred(q)])
        /\ issued' = issued /\ now' = now
    BY <1>7, <1>t, <1>h, <1>a, <1>d DEF RequestInv
  <2>2. CASE now > FromMilli(req[q].row)
    <3>1. ~Live(Cred(q))
      BY <1>r, <2>1, <2>2, <1>t DEF Live, AuthTypeOK, RequestState
    <3>2. q \in wasDead
      BY <1>7, <1>t, <3>1 DEF Witnessed, InProgress, Undecided
    <3> QED
      BY <1>7, <1>w, <2>1, <2>2, <3>2 DEF RequestInv, UnixMilli, FromMilli
  <2>3. CASE ~(now > FromMilli(req[q].row))
    <3>1. now \in Nat /\ FromMilli(req[q].row) \in Nat
      BY <1>t, <2>1, Millis DEF AuthTypeOK
    <3>2. q \in wasLive
      BY <1>7, <1>t, <2>3, <3>1 DEF RequestInv
    <3> QED
      BY <1>7, <1>w, <2>3, <3>2 DEF RequestInv
  <2> QED
    BY <2>2, <2>3
<1>8. CASE DropExpired(q) /\ req[q].pc = "expired" /\ req'[q].pc = "rejected"
  BY <1>8, <1>t, <1>w DEF RequestInv
<1>9. CASE QueryFails(q) /\ q \in faulty' /\ req'[q].pc = "rejected"
  BY <1>9 DEF RequestInv
<1> QED
  BY <1>t, <1>1, <1>2, <1>3, <1>4, <1>5, <1>6, <1>7, <1>8, <1>9, RequestGoes

-----------------------------------------------------------------------------
(* Sessions and keys: theorems *)

\* Every step preserves the invariant.
LEMMA AuthInvStep ==
    ASSUME AuthInv, [Next]_vars
    PROVE  AuthInv'
<1>1. CASE Next
  <2>t. AuthTypeOK /\ AuthTypeOK'
    BY <1>1, AuthTypeStep DEF AuthInv
  <2>1. \A t \in Token : SessionRow(t)'
    BY <1>1, SessionRowStep
  <2>2. ASSUME NEW q \in Req PROVE RequestInv(q)' /\ Witnessed(q)'
    <3>1. Witnessed(q)'
      BY <1>1, <2>t, HistoryKept DEF Next
    <3>2. CASE StoreStep
      <4>1. UNCHANGED <<req, enabled, faulty, now>>
        BY <3>2, AuthFrame
      <4>2. \A t \in Token : issued[t] # None => issued'[t] = issued[t]
        BY <2>t, <3>2 DEF AuthTypeOK, StoreStep, Create, Insert, Delete, DeleteExpired,
           Generate, DeleteKey
      <4>3. now <= now'
        BY <2>t, <4>1 DEF AuthTypeOK
      <4> QED
        BY <1>1, <4>1, <4>2, <4>3, <3>1, RequestInvFrame
    <3>3. CASE Tick
      <4>1. UNCHANGED <<req, enabled, faulty, issued>> /\ now <= now'
        BY <2>t, <3>3 DEF Tick, tables, AuthTypeOK
      <4> QED
        BY <1>1, <4>1, <3>1, RequestInvFrame
    <3>4. ASSUME NEW p \in Req, RequestStep(p) PROVE RequestInv(q)'
      <4>1. CASE p = q
        BY <1>1, <3>4, <4>1, RequestInvMoves
      <4>2. CASE p # q
        <5>1. req'[q] = req[q]
          BY <2>t, <3>4, <4>2, RequestMoves
        <5>2. UNCHANGED <<enabled, issued>> /\ faulty \subseteq faulty' /\ now <= now'
          BY <2>t, <3>4, AuthFrame DEF AuthTypeOK
        <5> QED
          BY <1>1, <5>1, <5>2, RequestInvFrame
      <4> QED
        BY <4>1, <4>2
    <3> QED
      BY <1>1, <3>1, <3>2, <3>3, <3>4 DEF Next
  <2> QED
    BY <2>t, <2>1, <2>2 DEF AuthInv
<1>2. CASE UNCHANGED vars
  BY <1>2 DEF vars, tables, observed, AuthInv, AuthTypeOK, SessionRow, RequestInv,
     Witnessed, Cred, Live, InProgress
<1> QED
  BY <1>1, <1>2

\* Sessions, keys and requests have their types, what a request has read of a
\* session is the end that was issued for it, and the history knows how every
\* credential under judgement has stood.
THEOREM AuthTypeCorrect == Spec => []AuthInv
<1>1. Init => AuthInv
  BY AuthInvInit
<1>2. AuthInv /\ [Next]_vars => AuthInv'
  BY AuthInvStep
<1> QED
  BY <1>1, <1>2, PTL DEF Spec

\* The middleware lets a request through only if its credential held at some
\* moment between the arrival and the decision, and turns it away only if at
\* some such moment it did not, or a query failed: for any tokens, keys,
\* requests, resolution of the clock and lifetime.
THEOREM AuthDecisionsRight == Spec => []DecisionsRight
<1>1. AuthInv => DecisionsRight
  BY DEF AuthInv, RequestInv, DecisionsRight
<1> QED
  BY <1>1, AuthTypeCorrect, PTL

\* A session nobody revokes lives until the millisecond of the end its client
\* was given, and not after that end.
THEOREM AuthSessionLifetime == Spec => []SessionLifetime
<1>1. ASSUME AuthInv PROVE SessionLifetime
  <2>1. SUFFICES ASSUME NEW t \in stored \ revoked
                 PROVE  /\ Live(t) => now <= issued[t]
                        /\ ~Live(t) => now > (issued[t] \div Res) * Res
    BY DEF SessionLifetime
  <2>2. /\ AuthTypeOK /\ SessionRow(t) /\ t \in Token /\ t \notin keys
        /\ issued[t] \in Nat /\ now \in Nat
    BY <1>1, <2>1, Disjoint DEF AuthInv, AuthTypeOK, SessionRow
  <2>3. /\ FromMilli(UnixMilli(issued[t])) = (issued[t] \div Res) * Res
        /\ FromMilli(UnixMilli(issued[t])) \in Nat
        /\ FromMilli(UnixMilli(issued[t])) <= issued[t]
    BY <2>2, Millis
  <2>4. CASE sessions[t] = None
    BY <2>1, <2>2, <2>3, <2>4 DEF Live, SessionRow
  <2>5. CASE sessions[t] # None
    <3>1. Live(t) <=> now <= FromMilli(UnixMilli(issued[t]))
      BY <2>2, <2>5 DEF Live, SessionRow
    <3> QED
      BY <2>2, <2>3, <3>1
  <2> QED
    BY <2>4, <2>5
<1> QED
  BY <1>1, AuthTypeCorrect, PTL

-----------------------------------------------------------------------------
(* Artifacts: the inductive invariant *)

Piece == (Upload \cup {NoUpload}) \X Nat
UploadPlace == {"idle", "begun", "copy", "ok", "err"}
Destination == Path \cup {0}
Call == [pc : UploadPlace, path : Destination, sent : Nat, alone : BOOLEAN]

\* The first k chunks of an upload.
Sent(u, k) == [i \in 1..k |-> <<u, i>>]

TypeObject ==
    /\ DOMAIN object \subseteq Path
    /\ \A p \in DOMAIN object : object[p] \in Seq(Piece)

ArtTypeOK ==
    /\ store \in {"local", "s3", "gcs", "artifactory"}
    /\ TypeObject
    /\ upload \in [Upload -> Call]
    /\ settled \in [Path -> Upload \cup {NoUpload}]
    /\ download \in [pc : {"idle", "read", "ok", "err"}, path : Destination,
                     got : Seq(Piece), want : Upload \cup {NoUpload}]
    /\ listing \in [pc : {"idle", "page", "ok", "err"}, after : Nat,
                    paths : SUBSET Path, must : SUBSET Path]

Busy(u) == upload[u].pc \in {"begun", "copy"}

\* What a call has done so far.
UploadInv(u) ==
    /\ upload[u].pc # "idle" => upload[u].path \in Path
    /\ upload[u].sent <= Chunks[u]
    /\ upload[u].pc = "begun" => upload[u].sent = 0 
    /\ upload[u].pc = "ok" => upload[u].path \in DOMAIN object
    /\ Busy(u) /\ upload[u].alone =>
         \A v \in Upload : Busy(v) /\ upload[v].path = upload[u].path => v = u
    /\ store = "local" /\ upload[u].pc = "copy" =>
         /\ upload[u].path \in DOMAIN object
         /\ upload[u].alone => object[upload[u].path] = Sent(u, upload[u].sent)

\* Every object has been uploaded to, and some number is past all of them.
ObjectInv ==
    /\ \A p \in DOMAIN object : \E u \in Upload :
         upload[u].pc # "idle" /\ upload[u].path = p
    /\ \E b \in Nat : \A p \in DOMAIN object : p <= b

\* Nobody writes to a settled path, and it has all chunks of its upload.
Whole(u, p) ==
    /\ \A v \in Upload : Busy(v) => upload[v].path # p
    /\ p \in DOMAIN object /\ object[p] = Sent(u, Chunks[u])

DownloadInv ==
    /\ download.pc = "read" => download.path \in DOMAIN object
    /\ download.want # NoUpload =>
         /\ download.pc \in {"read", "ok"} /\ Whole(download.want, download.path)
         /\ download.got = Sent(download.want, Len(download.got))
         /\ Len(download.got) <= Chunks[download.want]
         /\ download.pc = "ok" => Len(download.got) = Chunks[download.want]

\* What a listing has not passed by is still before it.
ListingInv ==
    /\ listing.pc \in {"page", "ok"} => store # "artifactory"
    /\ listing.must \subseteq DOMAIN object
    /\ \A p \in listing.paths : \E u \in Upload :
         upload[u].pc # "idle" /\ upload[u].path = p
    /\ listing.pc = "page" => \A p \in listing.must \ listing.paths :
         IF store = "local" THEN Dir[p] > listing.after ELSE p > listing.after
    /\ listing.pc = "ok" => listing.must \subseteq listing.paths

ArtInv ==
    /\ ArtTypeOK
    /\ \A u \in Upload : UploadInv(u)
    /\ \A p \in Path : settled[p] # NoUpload => Whole(settled[p], p)
    /\ ObjectInv /\ DownloadInv /\ ListingInv

-----------------------------------------------------------------------------
(* Artifacts: lemmas *)

\* Max of two numbers.
LEMMA MaxOfTwo ==
    ASSUME NEW a \in Nat, NEW b \in Nat
    PROVE  Max({a, b}) \in Nat /\ Max({a, b}) = IF a >= b THEN a ELSE b
<1>1. \E x \in {a, b} : \A y \in {a, b} : x >= y
  OBVIOUS
<1> QED
  BY <1>1 DEF Max

\* The chunks of an upload.
LEMMA SentChunks ==
    ASSUME NEW u \in Upload
    PROVE  /\ Content(u) = Sent(u, Chunks[u]) /\ Chunks[u] \in Nat
           /\ \A k \in Nat : Sent(u, k) \in Seq(Piece) /\ Len(Sent(u, k)) = k
           /\ \A k \in 0..Chunks[u] : SubSeq(Content(u), 1, k) \in Seq(Piece)
<1>1. Content(u) = Sent(u, Chunks[u]) /\ Chunks[u] \in Nat
  BY ChunksAssumption DEF Content, Sent
<1>2. ASSUME NEW k \in Nat PROVE Sent(u, k) \in Seq(Piece) /\ Len(Sent(u, k)) = k
  BY DEF Sent, Piece
<1>3. ASSUME NEW k \in 0..Chunks[u] PROVE SubSeq(Content(u), 1, k) \in Seq(Piece)
  BY <1>1, <1>2, SubSeqProperties
<1> QED
  BY <1>1, <1>2, <1>3

\* What is the case after an object is stored at a path that a call has.
LEMMA ObjectStored ==
    ASSUME ArtInv, NEW p \in Path, NEW chunks \in Seq(Piece), Stores(p, chunks)
    PROVE  /\ TypeObject'
           /\ DOMAIN object' = DOMAIN object \cup {p}
           /\ object'[p] = chunks
           /\ \A q \in DOMAIN object \ {p} : object'[q] = object[q]
           /\ \E b \in Nat : \A q \in DOMAIN object' : q <= b
<1>1. /\ DOMAIN object' = DOMAIN object \cup {p}
      /\ object'[p] = chunks
      /\ \A q \in DOMAIN object \ {p} : object'[q] = object[q]
  BY DEF Stores
<1>2. TypeObject'
  BY <1>1 DEF ArtInv, ArtTypeOK, TypeObject
<1>3. PICK b \in Nat : \A q \in DOMAIN object : q <= b
  BY DEF ArtInv, ObjectInv
<1>4. p \in Nat /\ DOMAIN object \subseteq Nat
  BY PathAssumption DEF ArtInv, ArtTypeOK, TypeObject
<1>5. PICK c \in Nat : b <= c /\ p <= c
  <2>1. CASE p <= b
    BY <2>1, <1>4
  <2>2. CASE ~(p <= b)
    BY <2>2, <1>4
  <2> QED
    BY <2>1, <2>2
<1>6. \A q \in DOMAIN object' : q <= c
  <2>1. SUFFICES ASSUME NEW q \in DOMAIN object' PROVE q <= c
    OBVIOUS
  <2>2. CASE q = p
    BY <2>2, <1>5
  <2>3. CASE q \in DOMAIN object
    BY <2>3, <1>3, <1>4, <1>5
  <2> QED
    BY <2>1, <2>2, <2>3, <1>1
<1> QED
  BY <1>1, <1>2, <1>6

\* A call goes to another place, or has sent one more chunk.
LEMMA CallMoves ==
    ASSUME ArtTypeOK, NEW u \in Upload,
           \/ \E pc \in UploadPlace : upload' = [upload EXCEPT ![u].pc = pc]
           \/ upload' = [upload EXCEPT ![u].sent = @ + 1]
    PROVE  /\ upload' \in [Upload -> Call]
           /\ \A v \in Upload : /\ upload'[v].path = upload[v].path
                                /\ upload'[v].alone = upload[v].alone
           /\ \A v \in Upload \ {u} : upload'[v] = upload[v]
           /\ upload'[u].sent = upload[u].sent \/ upload'[u].sent = upload[u].sent + 1
<1>1. upload \in [Upload -> [pc : UploadPlace, path : Destination, sent : Nat,
                             alone : BOOLEAN]]
  BY DEF ArtTypeOK, Call
<1> HIDE DEF UploadPlace, Destination
<1>2. ASSUME NEW pc \in UploadPlace, upload' = [upload EXCEPT ![u].pc = pc]
      PROVE  /\ upload' \in [Upload -> Call]
             /\ \A v \in Upload : /\ upload'[v].path = upload[v].path
                                  /\ upload'[v].alone = upload[v].alone
             /\ \A v \in Upload \ {u} : upload'[v] = upload[v]
             /\ upload'[u].sent = upload[u].sent
  BY <1>1, <1>2 DEF Call
<1>3. ASSUME upload' = [upload EXCEPT ![u].sent = @ + 1]
      PROVE  /\ upload' \in [Upload -> Call]
             /\ \A v \in Upload : /\ upload'[v].path = upload[v].path
                                  /\ upload'[v].alone = upload[v].alone
             /\ \A v \in Upload \ {u} : upload'[v] = upload[v]
             /\ upload'[u].sent = upload[u].sent + 1
  BY <1>1, <1>3 DEF Call
<1> QED
  BY <1>2, <1>3

\* A call that begins.
LEMMA CallBegins ==
    ASSUME ArtTypeOK, NEW u \in Upload, NEW p \in Path, UploadBegin(u, p)
    PROVE  /\ upload' \in [Upload -> Call]
           /\ upload'[u] = [pc |-> IF store = "gcs" THEN "copy" ELSE "begun", path |-> p,
                            sent |-> 0, alone |-> Active(p) = {}]
           /\ \A v \in Upload \ {u} :
                /\ upload'[v].pc = upload[v].pc /\ upload'[v].path = upload[v].path
                /\ upload'[v].sent = upload[v].sent
                /\ upload'[v].alone = (upload[v].alone /\ v \notin Active(p))
<1>t. upload \in [Upload -> [pc : UploadPlace, path : Destination, sent : Nat,
                             alone : BOOLEAN]]
  BY DEF ArtTypeOK, Call
<1> DEFINE new(v) ==
      CASE v = u -> [pc |-> IF store = "gcs" THEN "copy" ELSE "begun", path |-> p,
                     sent |-> 0, alone |-> Active(p) = {}]
        [] v \in Active(p) -> [upload[v] EXCEPT !.alone = FALSE]
        [] OTHER -> upload[v]
<1>1. upload' = [v \in Upload |-> new(v)] /\ upload[u].pc = "idle"
  BY DEF UploadBegin
<1>2. u \notin Active(p)
  BY <1>1 DEF Active
<1>n. new(u) = [pc |-> IF store = "gcs" THEN "copy" ELSE "begun", path |-> p,
                sent |-> 0, alone |-> Active(p) = {}]
  BY <1>2
<1>3. ASSUME NEW v \in Upload, v # u, v \in Active(p)
      PROVE  new(v) \in Call /\ new(v) = [upload[v] EXCEPT !.alone = FALSE]
  BY <1>t, <1>3 DEF Call
<1>4. ASSUME NEW v \in Upload, v # u, v \notin Active(p)
      PROVE  new(v) \in Call /\ new(v) = upload[v]
  BY <1>t, <1>4 DEF Call
<1>5. new(u) \in Call
  <2> DEFINE pc == IF store = "gcs" THEN "copy" ELSE "begun"
             alone == Active(p) = {}
  <2>1. p \in Destination /\ pc \in UploadPlace /\ alone \in BOOLEAN
    BY DEF Destination, UploadPlace
  <2>2. new(u) = [pc |-> pc, path |-> p, sent |-> 0, alone |-> alone]
    BY <1>n
  <2> HIDE DEF pc, alone, new
  <2> QED
    BY <2>1, <2>2 DEF Call
<1>6. upload' \in [Upload -> Call]
  <2> HIDE DEF new
  <2> QED
    BY <1>1, <1>3, <1>4, <1>5
<1>7. ASSUME NEW v \in Upload \ {u}
      PROVE  /\ upload'[v].pc = upload[v].pc /\ upload'[v].path = upload[v].path
             /\ upload'[v].sent = upload[v].sent
             /\ upload'[v].alone = (upload[v].alone /\ v \notin Active(p))
  <2>1. upload'[v] = new(v) /\ upload[v] \in Call
    BY <1>1, <1>t DEF Call
  <2> HIDE DEF new
  <2>2. CASE v \in Active(p)
    BY <2>1, <2>2, <1>3 DEF Call
  <2>3. CASE v \notin Active(p)
    BY <2>1, <2>3, <1>4 DEF Call
  <2> QED
    BY <2>2, <2>3
<1>8. upload'[u] = new(u)
  <2> HIDE DEF new
  <2> QED
    BY <1>1
<1> HIDE DEF new
<1> QED
  BY <1>6, <1>7, <1>8, <1>n
\* A step of a busy call keeps the invariant, if all that it changes is what it
\* is doing itself, the object at its path, and whether that path is settled.
LEMMA CallStep ==
    ASSUME ArtInv, NEW u \in Upload, Busy(u),
           UNCHANGED <<store, download, listing>>,
           upload' \in [Upload -> Call],
           \A v \in Upload : /\ upload'[v].path = upload[v].path
                             /\ upload'[v].alone = upload[v].alone,
           \A v \in Upload \ {u} : upload'[v] = upload[v],
           upload'[u].pc \in {"copy", "ok", "err"}, upload'[u].sent <= Chunks[u],
           TypeObject', DOMAIN object \subseteq DOMAIN object',
           DOMAIN object' \subseteq DOMAIN object \cup {upload[u].path},
           \A q \in DOMAIN object \ {upload[u].path} : object'[q] = object[q],
           \E b \in Nat : \A q \in DOMAIN object' : q <= b,
           upload'[u].pc = "copy" /\ store = "local" =>
             /\ upload[u].path \in DOMAIN object'
             /\ upload[u].alone =>
                  object'[upload[u].path] = Sent(u, upload'[u].sent),
           upload'[u].pc = "ok" =>
             /\ upload[u].path \in DOMAIN object'
             /\ upload[u].alone =>
                  object'[upload[u].path] = Sent(u, Chunks[u]),
           settled' = [settled EXCEPT ![upload[u].path] =
                         IF upload'[u].pc = "ok" /\ upload[u].alone THEN u ELSE NoUpload]
    PROVE  ArtInv'
<1> DEFINE p == upload[u].path
<1>t. ArtTypeOK /\ p \in Path /\ \A v \in Upload : UploadInv(v)
  BY DEF ArtInv, UploadInv, Busy
<1>b. ASSUME NEW v \in Upload, Busy(v)' PROVE Busy(v)
  BY <1>b DEF Busy
<1>1. ArtTypeOK'
  BY <1>t DEF ArtTypeOK
<1>2. ASSUME NEW v \in Upload PROVE UploadInv(v)'
  <2>1. UploadInv(v) /\ UploadInv(u)
    BY <1>t
  <2>2. CASE v = u
    BY <2>1, <2>2, <1>b DEF UploadInv, Busy
  <2>3. CASE v # u
    <3>1. upload'[v] = upload[v]
      BY <2>3
    <3>2. Busy(v)' /\ upload'[v].alone =>
            \A w \in Upload : Busy(w)' /\ upload'[w].path = upload'[v].path => w = v
      BY <2>1, <1>b DEF UploadInv
    <3>3. upload[v].pc = "copy" /\ upload[v].alone => upload[v].path # p
      BY <2>1, <2>3 DEF UploadInv, Busy
    <3> QED
      BY <2>1, <3>1, <3>2, <3>3 DEF UploadInv
  <2> QED
    BY <2>2, <2>3
<1>3. ASSUME NEW q \in Path, (settled[q] # NoUpload)' PROVE Whole(settled[q], q)'
  <2>1. CASE q = p
    <3>1. settled'[q] = u /\ upload'[u].pc = "ok" /\ upload[u].alone
      BY <1>t, <1>3, <2>1 DEF ArtTypeOK
    <3>2. \A v \in Upload : Busy(v)' => upload'[v].path # p
      <4>1. \A v \in Upload : Busy(v) /\ upload[v].path = p => v = u
        BY <1>t, <3>1 DEF UploadInv
      <4> QED
        BY <4>1, <1>b, <3>1 DEF Busy
    <3> QED
      BY <2>1, <3>1, <3>2 DEF Whole
  <2>2. CASE q # p
    <3>1. settled'[q] = settled[q] /\ Whole(settled[q], q)
      BY <1>t, <1>3, <2>2 DEF ArtTypeOK, ArtInv
    <3> QED
      BY <2>2, <3>1, <1>b DEF Whole
  <2> QED
    BY <2>1, <2>2
<1>4. ObjectInv'
  <2>1. ASSUME NEW q \in DOMAIN object'
        PROVE  \E v \in Upload : upload'[v].pc # "idle" /\ upload'[v].path = q
    <3>1. CASE q = p
      BY <3>1
    <3>2. CASE q \in DOMAIN object
      <4>1. PICK v \in Upload : upload[v].pc # "idle" /\ upload[v].path = q
        BY <3>2 DEF ArtInv, ObjectInv
      <4> QED
        BY <4>1
    <3> QED
      BY <3>1, <3>2
  <2> QED
    BY <2>1 DEF ObjectInv
<1>5. DownloadInv'
  <2>1. DownloadInv
    BY DEF ArtInv
  <2>2. ASSUME download.want # NoUpload
        PROVE  Whole(download.want, download.path)'
    <3>1. Whole(download.want, download.path) /\ download.path # p
      BY <2>1, <2>2 DEF DownloadInv, Whole
    <3> QED
      BY <3>1, <1>b DEF Whole
  <2> QED
    BY <2>1, <2>2 DEF DownloadInv
<1>6. ListingInv'
  <2>1. ListingInv
    BY DEF ArtInv
  <2>2. ASSUME NEW v \in Upload, upload[v].pc # "idle"
        PROVE  upload'[v].pc # "idle"
    BY <2>2
  <2> QED
    BY <2>1, <2>2 DEF ListingInv
<1> QED
  BY <1>1, <1>2, <1>3, <1>4, <1>5, <1>6 DEF ArtInv

\* The steps of the calls that have begun.
LEMMA UploadStep ==
    ASSUME ArtInv, NEW u \in Upload,
           \/ LocalCreate(u) \/ LocalCopy(u) \/ LocalDone(u) \/ LocalFails(u)
           \/ PutDone(u) \/ PutFails(u)
           \/ GCSCopy(u) \/ GCSClose(u) \/ GCSCopyFails(u)
    PROVE  ArtInv'
<1> DEFINE p == upload[u].path
<1>b. Busy(u)
  BY DEF LocalCreate, LocalCopy, LocalDone, LocalFails, PutDone, PutFails, GCSCopy,
     GCSClose, GCSCopyFails, Busy
<1>t. /\ ArtTypeOK /\ UploadInv(u) /\ p \in Path /\ u # NoUpload
      /\ upload[u].sent \in Nat /\ upload[u].sent <= Chunks[u]
      /\ settled[p] = NoUpload
  BY <1>b, ChunksAssumption DEF ArtInv, UploadInv, Busy, Whole, ArtTypeOK, Call
<1>s. /\ Content(u) \in Seq(Piece) /\ SubSeq(Content(u), 1, upload[u].sent) \in Seq(Piece)
      /\ <<>> \in Seq(Piece) /\ Content(u) = Sent(u, Chunks[u]) /\ <<>> = Sent(u, 0)
  BY <1>t, SentChunks DEF Sent
<1>o. /\ TypeObject /\ \E b \in Nat : \A q \in DOMAIN object : q <= b
  BY DEF ArtInv, ArtTypeOK, ObjectInv
<1>k. settled = [settled EXCEPT ![p] = NoUpload]
  BY <1>t DEF ArtTypeOK
<1>p. "ok" \in UploadPlace /\ "err" \in UploadPlace /\ "copy" \in UploadPlace
  BY DEF UploadPlace
<1> DEFINE ObjectMoves ==
      /\ TypeObject' /\ DOMAIN object \subseteq DOMAIN object'
      /\ DOMAIN object' \subseteq DOMAIN object \cup {p}
      /\ \A q \in DOMAIN object \ {p} : object'[q] = object[q]
      /\ \E b \in Nat : \A q \in DOMAIN object' : q <= b
<1>m. ASSUME NEW pc \in UploadPlace, upload' = [upload EXCEPT ![u].pc = pc]
      PROVE  /\ upload'[u].pc = pc /\ upload'[u].sent = upload[u].sent
             /\ upload' \in [Upload -> Call]
             /\ \A v \in Upload : /\ upload'[v].path = upload[v].path
                                  /\ upload'[v].alone = upload[v].alone
             /\ \A v \in Upload \ {u} : upload'[v] = upload[v]
  <2>1. upload'[u].pc = pc /\ upload'[u].sent = upload[u].sent
    BY <1>t, <1>m DEF ArtTypeOK, Call
  <2> QED
    BY <1>t, <1>m, <2>1, CallMoves
<1>w. ASSUME NEW chunks \in Seq(Piece), Stores(p, chunks)
      PROVE  ObjectMoves /\ p \in DOMAIN object' /\ object'[p] = chunks
  BY <1>t, <1>w, ObjectStored
<1>n. UNCHANGED object => ObjectMoves
  BY <1>o DEF TypeObject
<1>r. ASSUME NEW pc \in {"ok", "err"}, UploadReturns(u, pc), ObjectMoves,
             pc = "ok" => /\ p \in DOMAIN object'
                          /\ upload[u].alone => object'[p] = Sent(u, Chunks[u])
      PROVE  ArtInv'
  <2>1. /\ upload' = [upload EXCEPT ![u].pc = pc] /\ pc \in UploadPlace
        /\ UNCHANGED <<store, download, listing>>
    BY <1>r, <1>p DEF UploadReturns
  <2>2. /\ upload'[u].pc = pc /\ upload'[u].sent = upload[u].sent
        /\ upload' \in [Upload -> Call]
        /\ \A v \in Upload : /\ upload'[v].path = upload[v].path
                             /\ upload'[v].alone = upload[v].alone
        /\ \A v \in Upload \ {u} : upload'[v] = upload[v]
    BY <2>1, <1>m
  <2>3. settled' = [settled EXCEPT ![p] =
          IF upload'[u].pc = "ok" /\ upload[u].alone THEN u ELSE NoUpload]
    BY <1>r, <2>2 DEF UploadReturns
  <2> QED
    BY <1>b, <1>t, <1>r, <2>1, <2>2, <2>3, CallStep
<1>1. CASE LocalCreate(u)
  <2>1. /\ Stores(p, <<>>) /\ upload' = [upload EXCEPT ![u].pc = "copy"]
        /\ upload[u].pc = "begun" /\ store = "local"
        /\ UNCHANGED <<store, download, listing, settled>>
    BY <1>1 DEF LocalCreate
  <2>2. upload[u].sent = 0
    BY <1>t, <2>1 DEF UploadInv
  <2> QED
    BY <1>b, <1>t, <1>s, <1>k, <1>p, <1>m, <1>w, <2>1, <2>2, CallStep
<1>2. CASE LocalCopy(u)
  <2> DEFINE k == upload[u].sent + 1
             old == object[p]
             n == Max({k, Len(old)})
             new == [i \in 1..n |-> CASE i = k -> <<u, i>>
                                      [] i # k /\ i <= Len(old) -> old[i]
                                      [] OTHER -> <<NoUpload, i>>]
  <2>1. /\ Stores(p, new) /\ upload' = [upload EXCEPT ![u].sent = @ + 1]
        /\ upload[u].pc = "copy" /\ store = "local" /\ upload[u].sent < Chunks[u]
        /\ UNCHANGED <<store, download, listing, settled>>
    BY <1>2 DEF LocalCopy
  <2>2. p \in DOMAIN object /\ old \in Seq(Piece) /\ k \in Nat /\ Chunks[u] \in Nat
    BY <1>t, <1>o, <2>1, ChunksAssumption DEF UploadInv, TypeObject
  <2>3. n \in Nat /\ n = IF k >= Len(old) THEN k ELSE Len(old)
    BY <2>2, MaxOfTwo
  <2>4. new \in Seq(Piece)
    <3>1. ASSUME NEW i \in 1..n PROVE new[i] \in Piece
      <4>1. <<u, i>> \in Piece /\ <<NoUpload, i>> \in Piece
        BY <2>3 DEF Piece
      <4>2. i <= Len(old) => old[i] \in Piece
        BY <2>2, <2>3
      <4> QED
        BY <4>1, <4>2
    <3>2. new = [i \in 1..n |-> new[i]]
      OBVIOUS
    <3> HIDE DEF n, new
    <3>3. new \in [1..n -> Piece]
      BY <3>1, <3>2
    <3> QED
      BY <2>3, <3>3, SeqDef
  <2>5. upload[u].alone => new = Sent(u, k)
    <3>1. SUFFICES ASSUME upload[u].alone PROVE new = Sent(u, k)
      OBVIOUS
    <3>2. old = Sent(u, k - 1) /\ Len(old) = k - 1
      BY <1>t, <2>1, <3>1, SentChunks DEF UploadInv
    <3>3. n = k
      BY <2>2, <2>3, <3>2
    <3>4. \A i \in 1..k : i # k => i <= Len(old) /\ old[i] = <<u, i>>
      BY <1>t, <3>2 DEF Sent
    <3> HIDE DEF n, old
    <3> QED
      BY <3>3, <3>4 DEF Sent
  <2>6. ObjectMoves /\ p \in DOMAIN object' /\ object'[p] = new
    BY <1>w, <2>1, <2>4
  <2>7. /\ upload' \in [Upload -> Call]
        /\ \A v \in Upload : /\ upload'[v].path = upload[v].path
                             /\ upload'[v].alone = upload[v].alone
        /\ \A v \in Upload \ {u} : upload'[v] = upload[v]
    BY <1>t, <2>1, CallMoves
  <2>8. upload'[u].sent = k /\ upload'[u].pc = "copy" /\ k <= Chunks[u]
    BY <1>t, <2>1, <2>2 DEF ArtTypeOK, Call
  <2> HIDE DEF new, n, old, k
  <2> QED
    BY <1>b, <1>t, <1>k, <2>1, <2>5, <2>6, <2>7, <2>8, CallStep
<1>3. CASE LocalDone(u)
  <2>1. p \in DOMAIN object /\ (upload[u].alone => object[p] = Sent(u, Chunks[u]))
    BY <1>3, <1>t DEF LocalDone, UploadInv
  <2> QED
    BY <1>3, <1>n, <1>r, <2>1 DEF LocalDone
<1>4. CASE LocalFails(u) \/ PutFails(u)
  BY <1>4, <1>n, <1>r DEF LocalFails, PutFails
<1>5. CASE PutDone(u)
  BY <1>5, <1>r, <1>s, <1>w DEF PutDone
<1>6. CASE GCSCopy(u)
  <2>1. /\ upload' = [upload EXCEPT ![u].sent = @ + 1]
        /\ upload[u].pc = "copy" /\ store = "gcs" /\ upload[u].sent < Chunks[u]
        /\ UNCHANGED <<store, object, download, listing, settled>>
    BY <1>6 DEF GCSCopy
  <2>2. /\ upload' \in [Upload -> Call]
        /\ \A v \in Upload : /\ upload'[v].path = upload[v].path
                             /\ upload'[v].alone = upload[v].alone
        /\ \A v \in Upload \ {u} : upload'[v] = upload[v]
    BY <1>t, <2>1, CallMoves
  <2>3. /\ upload'[u].sent = upload[u].sent + 1 /\ upload'[u].pc = "copy"
        /\ upload[u].sent + 1 <= Chunks[u]
    <3>1. upload'[u].sent = upload[u].sent + 1 /\ upload'[u].pc = "copy"
      BY <1>t, <2>1 DEF ArtTypeOK, Call
    <3>2. Chunks[u] \in Nat
      BY ChunksAssumption
    <3> QED
      BY <1>t, <2>1, <3>1, <3>2
  <2> QED
    BY <1>b, <1>t, <1>k, <1>n, <2>1, <2>2, <2>3, CallStep
<1>7. CASE GCSClose(u)
  <2>1. CASE Stores(p, Content(u)) /\ \E pc \in {"ok", "err"} : UploadReturns(u, pc)
    BY <2>1, <1>r, <1>s, <1>w
  <2>2. CASE UploadReturns(u, "err") /\ UNCHANGED object
    BY <2>2, <1>n, <1>r
  <2> QED
    BY <1>7, <2>1, <2>2 DEF GCSClose
<1>8. CASE GCSCopyFails(u)
  <2>1. CASE Stores(p, SubSeq(Content(u), 1, upload[u].sent)) /\ UploadReturns(u, "err")
    BY <2>1, <1>r, <1>s, <1>w
  <2>2. CASE UploadReturns(u, "err") /\ UNCHANGED object
    BY <2>2, <1>n, <1>r
  <2> QED
    BY <1>8, <2>1, <2>2 DEF GCSCopyFails
<1> QED
  BY <1>1, <1>2, <1>3, <1>4, <1>5, <1>6, <1>7, <1>8

\* A call that begins: its path is not settled any more, and no other call of
\* the path is alone.
LEMMA BeginStep ==
    ASSUME ArtInv, NEW u \in Upload, NEW p \in Path, UploadBegin(u, p)
    PROVE  ArtInv'
<1>t. ArtTypeOK /\ \A v \in Upload : UploadInv(v)
  BY DEF ArtInv
<1>u. /\ upload' \in [Upload -> Call]
      /\ upload'[u] = [pc |-> IF store = "gcs" THEN "copy" ELSE "begun", path |-> p,
                       sent |-> 0, alone |-> Active(p) = {}]
      /\ \A v \in Upload \ {u} :
           /\ upload'[v].pc = upload[v].pc /\ upload'[v].path = upload[v].path
           /\ upload'[v].sent = upload[v].sent
           /\ upload'[v].alone = (upload[v].alone /\ v \notin Active(p))
  BY <1>t, CallBegins
<1>a. /\ settled' = [settled EXCEPT ![p] = NoUpload]
      /\ download' = [download EXCEPT !.want = IF download.path = p THEN NoUpload ELSE @]
      /\ UNCHANGED <<store, object, listing>>
  BY DEF UploadBegin
<1>d. /\ download'.pc = download.pc /\ download'.path = download.path
      /\ download'.got = download.got
      /\ download'.want = IF download.path = p THEN NoUpload ELSE download.want
  BY <1>t, <1>a DEF ArtTypeOK
<1>p. ASSUME NEW v \in Upload, upload[v].pc # "idle"
      PROVE  upload'[v].pc # "idle" /\ upload'[v].path = upload[v].path
  BY <1>p, <1>u DEF UploadBegin
<1>b. ASSUME NEW v \in Upload, v # u, Busy(v)'
      PROVE  Busy(v) /\ upload'[v].path = upload[v].path
  BY <1>b, <1>u DEF Busy
<1>w. ASSUME NEW v \in Upload, NEW q, q # p, Whole(v, q) PROVE Whole(v, q)'
  BY <1>a, <1>u, <1>w DEF Whole, Busy
<1>1. ArtTypeOK'
  <2>1. download' \in [pc : {"idle", "read", "ok", "err"}, path : Destination,
                       got : Seq(Piece), want : Upload \cup {NoUpload}]
    BY <1>t, <1>a DEF ArtTypeOK
  <2> QED
    BY <1>t, <1>u, <1>a, <2>1 DEF ArtTypeOK, TypeObject
<1>2. ASSUME NEW v \in Upload PROVE UploadInv(v)'
  <2>1. CASE v = u
    <3>1. Active(p) = {} => \A w \in Upload : Busy(w)' /\ upload'[w].path = p => w = u
      BY <1>b DEF Active, Busy
    <3>2. Chunks[u] \in Nat
      BY ChunksAssumption
    <3>3. /\ upload'[u].pc = IF store = "gcs" THEN "copy" ELSE "begun"
          /\ upload'[u].path = p /\ upload'[u].sent = 0
          /\ upload'[u].alone <=> Active(p) = {}
      <4> DEFINE pc == IF store = "gcs" THEN "copy" ELSE "begun"
                 alone == Active(p) = {}
      <4>1. upload'[u] = [pc |-> pc, path |-> p, sent |-> 0, alone |-> alone]
        BY <1>u
      <4>2. alone <=> Active(p) = {}
        OBVIOUS
      <4>3. pc = IF store = "gcs" THEN "copy" ELSE "begun"
        OBVIOUS
      <4> HIDE DEF pc, alone
      <4> QED
        BY <4>1, <4>2, <4>3
    <3> QED
      BY <1>a, <2>1, <3>1, <3>2, <3>3 DEF UploadInv
  <2>2. CASE v # u
    <3>1. UploadInv(v)
      BY <1>t
    <3>2. upload'[v].alone => upload[v].alone /\ v \notin Active(p)
      BY <1>u, <2>2
    <3>3. Busy(v)' /\ upload'[v].alone =>
            \A w \in Upload : Busy(w)' /\ upload'[w].path = upload'[v].path => w = v
      <4> SUFFICES ASSUME Busy(v)', upload'[v].alone, NEW w \in Upload, Busy(w)',
                          upload'[w].path = upload'[v].path
                   PROVE  w = v
        OBVIOUS
      <4>1. Busy(v) /\ upload[v].path # p /\ upload'[v].path = upload[v].path
        BY <1>b, <2>2, <3>2 DEF Active, Busy
      <4>2. w # u
        BY <1>u, <4>1
      <4> QED
        BY <1>b, <3>1, <3>2, <4>1, <4>2 DEF UploadInv
    <3> QED
      BY <1>u, <1>a, <2>2, <3>1, <3>2, <3>3 DEF UploadInv
  <2> QED
    BY <2>1, <2>2
<1>3. ASSUME NEW q \in Path, (settled[q] # NoUpload)' PROVE Whole(settled[q], q)'
  <2>1. q # p /\ settled'[q] = settled[q] /\ settled[q] \in Upload
    BY <1>t, <1>a, <1>3 DEF ArtTypeOK
  <2>2. Whole(settled[q], q)
    BY <1>3, <2>1 DEF ArtInv
  <2> QED
    BY <1>w, <2>1, <2>2 DEF Whole
<1>4. ObjectInv'
  BY <1>a, <1>p DEF ArtInv, ObjectInv
<1>5. DownloadInv'
  <2>1. DownloadInv
    BY DEF ArtInv
  <2>2. ASSUME (download.want # NoUpload)'
        PROVE  /\ download'.want = download.want /\ download.want # NoUpload
               /\ Whole(download.want, download.path)'
    <3>1. /\ download.path # p /\ download.want # NoUpload
          /\ download'.want = download.want /\ download.want \in Upload
      BY <1>t, <1>d, <2>2 DEF ArtTypeOK
    <3>2. Whole(download.want, download.path)
      BY <2>1, <3>1 DEF DownloadInv
    <3> QED
      BY <1>w, <1>d, <3>1, <3>2 DEF Whole
  <2> QED
    BY <1>a, <1>d, <2>1, <2>2 DEF DownloadInv
<1>6. ListingInv'
  BY <1>a, <1>p DEF ArtInv, ListingInv
<1> QED
  BY <1>1, <1>2, <1>3, <1>4, <1>5, <1>6 DEF ArtInv

\* A set of numbers has a least one, and a greatest one if it is bounded.
LEMMA LeastOf ==
    ASSUME NEW S \in SUBSET Nat, S # {}
    PROVE  Min(S) \in S /\ \A y \in S : Min(S) <= y
<1>1. PICK x \in S : \A y \in S : ~ (<<y, x>> \in OpToRel(<, Nat))
  BY NatLessThanWellFounded, WFMin
<1>2. \A y \in S : <<y, x>> \in OpToRel(<, Nat) <=> y < x
  BY DEF OpToRel
<1>3. ASSUME NEW y \in S PROVE x <= y
  <2>1. ~(y < x)
    BY <1>1, <1>2, Zenon
  <2> QED
    BY <2>1
<1> QED
  BY <1>3 DEF Min

\* The greatest one of a bounded set.
LEMMA GreatestOf ==
    ASSUME NEW S \in SUBSET Nat, S # {}, NEW b \in Nat, \A x \in S : x <= b
    PROVE  Max(S) \in S /\ \A y \in S : y <= Max(S)
<1> DEFINE T == {b - x : x \in S}
<1>1. T \in SUBSET Nat /\ T # {} /\ \A x \in S : b - x \in T
  <2>1. \A x \in S : b - x \in Nat
    OBVIOUS
  <2>2. PICK x \in S : TRUE
    OBVIOUS
  <2>3. b - x \in T
    OBVIOUS
  <2> QED
    BY <2>1, <2>3
<1>2. Min(T) \in T /\ \A y \in T : Min(T) <= y
  BY <1>1, LeastOf
<1>3. PICK x \in S : Min(T) = b - x
  BY <1>2
<1>4. ASSUME NEW y \in S PROVE x >= y
  <2>1. b - y \in T
    BY <1>1
  <2> HIDE DEF T
  <2>2. b - x <= b - y
    BY <1>2, <1>3, <2>1
  <2> QED
    BY <2>2
<1> QED
  BY <1>4 DEF Max

\* A page is empty only if no key is left, and has all keys up to its last.
LEMMA PageComplete ==
    ASSUME ArtInv
    PROVE  /\ Page \subseteq DOMAIN object
           /\ \A q \in DOMAIN object : q > listing.after =>
                Page # {} /\ (q \in Page \/ q > Max(Page))
           /\ Page # {} => Max(Page) \in Nat
<1>t. ArtTypeOK /\ DOMAIN object \in SUBSET Nat /\ listing.after \in Nat
  BY PathAssumption DEF ArtInv, ArtTypeOK, TypeObject
<1>s. PageSize \in Nat \ {0}
  BY PageAssumption
<1> DEFINE Rest == {q \in DOMAIN object : q > listing.after}
           Before(p) == {q \in DOMAIN object : q > listing.after /\ q < p}
<1>1. Page = {p \in Rest : Cardinality(Before(p)) < PageSize}
  BY DEF Page
<1>p. /\ Page \subseteq Rest
      /\ \A p \in Rest : p \in Page <=> Cardinality(Before(p)) < PageSize
  BY <1>1
<1>2. ASSUME NEW p \in Rest PROVE IsFiniteSet(Before(p)) /\ Cardinality(Before(p)) \in Nat
  <2>1. Before(p) \subseteq 0..p /\ p \in Nat
    BY <1>t
  <2>2. IsFiniteSet(0..p)
    BY <2>1, FS_Interval
  <2> QED
    BY <2>1, <2>2, FS_Subset, FS_CardinalityType
<1>3. ASSUME NEW q \in Rest PROVE Page # {}
  <2>1. Rest \in SUBSET Nat /\ Rest # {}
    BY <1>t, <1>3
  <2>2. Min(Rest) \in Rest /\ \A y \in Rest : Min(Rest) <= y
    BY <2>1, LeastOf
  <2>3. Before(Min(Rest)) = {}
    BY <2>1, <2>2, <1>t
  <2>4. Cardinality(Before(Min(Rest))) = 0
    BY <2>3, FS_EmptySet
  <2> HIDE DEF Rest, Before
  <2> QED
    BY <1>p, <1>s, <2>2, <2>4
<1>4. Page # {} => Max(Page) \in Page
  <2>1. PICK b \in Nat : \A p \in DOMAIN object : p <= b
    BY DEF ArtInv, ObjectInv
  <2>2. Page \in SUBSET Nat /\ \A p \in Page : p <= b
    BY <1>1, <1>t, <2>1
  <2> QED
    BY <2>1, <2>2, GreatestOf
<1>5. ASSUME NEW q \in Rest, q \notin Page PROVE q > Max(Page)
  <2>1. Page # {} /\ Max(Page) \in Rest /\ Cardinality(Before(Max(Page))) < PageSize
    BY <1>1, <1>3, <1>4
  <2>2. SUFFICES ASSUME q <= Max(Page) PROVE FALSE
    BY <1>t, <2>1
  <2>3. Before(q) \subseteq Before(Max(Page))
    BY <1>t, <2>1, <2>2
  <2>4. Cardinality(Before(q)) <= Cardinality(Before(Max(Page)))
    BY <1>2, <2>1, <2>3, FS_Subset
  <2>5. Cardinality(Before(q)) \in Nat /\ Cardinality(Before(Max(Page))) \in Nat
    BY <1>2, <2>1
  <2> HIDE DEF Rest, Before
  <2> QED
    BY <1>p, <1>5, <1>s, <2>1, <2>4, <2>5
<1> QED
  BY <1>1, <1>3, <1>4, <1>5, <1>t

\* Reading changes nothing that calls depend on.
LEMMA ReadStep ==
    ASSUME ArtInv, UNCHANGED <<store, object, upload, settled>>,
           download' \in [pc : {"idle", "read", "ok", "err"}, path : Destination,
                          got : Seq(Piece), want : Upload \cup {NoUpload}],
           listing' \in [pc : {"idle", "page", "ok", "err"}, after : Nat,
                         paths : SUBSET Path, must : SUBSET Path],
           DownloadInv', ListingInv'
    PROVE  ArtInv'
BY DEF ArtInv, ArtTypeOK, TypeObject, UploadInv, Busy, Whole, ObjectInv

\* A Download and the reading of a file.
LEMMA DownloadStep ==
    ASSUME ArtInv,
           \/ \E p \in Path : Download(p) \/ DownloadFails(p)
           \/ LocalRead
    PROVE  ArtInv'
<1>t. ArtTypeOK /\ DownloadInv /\ ListingInv
  BY DEF ArtInv
<1>u. UNCHANGED <<store, object, upload, listing, settled>>
  BY DEF Download, DownloadFails, LocalRead
<1>l. ListingInv'
  BY <1>t, <1>u DEF ListingInv
<1>w. ASSUME NEW u, NEW q, Whole(u, q) PROVE Whole(u, q)'
  BY <1>u, <1>w DEF Whole, Busy
<1>1. ASSUME NEW p \in Path, Download(p) PROVE ArtInv'
  <2>1. /\ p \in DOMAIN object /\ p \in Destination
        /\ object[p] \in Seq(Piece) /\ <<>> \in Seq(Piece)
        /\ settled[p] \in Upload \cup {NoUpload}
    BY <1>1, <1>t DEF Download, ArtTypeOK, TypeObject, Destination
  <2>2. download' = [pc |-> IF Service THEN "ok" ELSE "read", path |-> p,
                     got |-> IF Service THEN object[p] ELSE <<>>, want |-> settled[p]]
    BY <1>1 DEF Download
  <2>3. settled[p] # NoUpload =>
          /\ Whole(settled[p], p) /\ object[p] = Sent(settled[p], Chunks[settled[p]])
          /\ Len(object[p]) = Chunks[settled[p]] /\ Chunks[settled[p]] \in Nat
          /\ <<>> = Sent(settled[p], 0) /\ Len(<<>>) = 0
    <3>1. SUFFICES ASSUME settled[p] # NoUpload
                   PROVE  /\ Whole(settled[p], p)
                          /\ object[p] = Sent(settled[p], Chunks[settled[p]])
                          /\ Len(object[p]) = Chunks[settled[p]]
                          /\ Chunks[settled[p]] \in Nat
                          /\ <<>> = Sent(settled[p], 0) /\ Len(<<>>) = 0
      OBVIOUS
    <3>2. settled[p] \in Upload
      BY <2>1, <3>1
    <3>3. Whole(settled[p], p)
      BY <3>1 DEF ArtInv
    <3>4. object[p] = Sent(settled[p], Chunks[settled[p]])
      BY <3>3 DEF Whole
    <3>5. Chunks[settled[p]] \in Nat /\ Len(object[p]) = Chunks[settled[p]]
      BY <3>2, <3>4, SentChunks
    <3> QED
      BY <3>3, <3>4, <3>5 DEF Sent
  <2>4. DownloadInv'
    <3>1. CASE Service
      BY <1>u, <1>w, <2>1, <2>2, <2>3, <3>1 DEF DownloadInv
    <3>2. CASE ~Service
      BY <1>u, <1>w, <2>1, <2>2, <2>3, <3>2 DEF DownloadInv
    <3> QED
      BY <3>1, <3>2
  <2>5. download' \in [pc : {"idle", "read", "ok", "err"}, path : Destination,
                       got : Seq(Piece), want : Upload \cup {NoUpload}]
    BY <2>1, <2>2
  <2> QED
    BY <1>t, <1>u, <1>l, <2>4, <2>5, ReadStep DEF ArtTypeOK
<1>2. ASSUME NEW p \in Path, DownloadFails(p) PROVE ArtInv'
  <2>1. p \in Destination /\ 0 \in Destination /\ <<>> \in Seq(Piece)
    BY DEF Destination
  <2>2. NoDownload \in [pc : {"idle", "read", "ok", "err"}, path : Destination,
                       got : Seq(Piece), want : Upload \cup {NoUpload}]
    BY <2>1 DEF NoDownload
  <2>3. download' = [NoDownload EXCEPT !.pc = "err", !.path = p]
        /\ NoDownload.want = NoUpload
    BY <1>2 DEF DownloadFails, NoDownload
  <2>4. /\ download' \in [pc : {"idle", "read", "ok", "err"}, path : Destination,
                           got : Seq(Piece), want : Upload \cup {NoUpload}]
        /\ download'.pc = "err" /\ download'.want = NoUpload
    BY <2>1, <2>2, <2>3
  <2>5. DownloadInv'
    BY <2>4 DEF DownloadInv
  <2> QED
    BY <1>t, <1>u, <1>l, <2>4, <2>5, ReadStep DEF ArtTypeOK
<1>3. ASSUME LocalRead PROVE ArtInv'
  <2> DEFINE chunks == object[download.path]
             k == Len(download.got) + 1
  <2>1. /\ chunks \in Seq(Piece) /\ download.got \in Seq(Piece) /\ k \in Nat \ {0}
        /\ download.pc = "read" /\ download.path \in DOMAIN object
    BY <1>3, <1>t DEF LocalRead, DownloadInv, ArtTypeOK, TypeObject
  <2>2. download.want # NoUpload =>
          /\ download.want \in Upload /\ Chunks[download.want] \in Nat
          /\ Whole(download.want, download.path)
          /\ chunks = Sent(download.want, Chunks[download.want])
          /\ download.got = Sent(download.want, k - 1) /\ k - 1 <= Chunks[download.want]
          /\ Len(chunks) = Chunks[download.want]
    BY <1>t, <2>1, SentChunks DEF DownloadInv, ArtTypeOK, Whole
  <2>3. CASE k <= Len(chunks)
    <3>1. download' = [download EXCEPT !.got = Append(@, chunks[k])]
      BY <1>3, <2>3 DEF LocalRead
    <3>2. Append(download.got, chunks[k]) \in Seq(Piece)
      BY <2>1, <2>3
    <3>3. /\ download'.pc = "read" /\ download'.path = download.path
          /\ download'.want = download.want
          /\ download'.got = Append(download.got, chunks[k])
          /\ download' \in [pc : {"idle", "read", "ok", "err"}, path : Destination,
                            got : Seq(Piece), want : Upload \cup {NoUpload}]
      BY <1>t, <2>1, <3>1, <3>2 DEF ArtTypeOK
    <3>4. ASSUME download.want # NoUpload
          PROVE  /\ download'.got = Sent(download.want, Len(download'.got))
                 /\ Len(download'.got) <= Chunks[download.want]
      <4> DEFINE u == download.want
                 got == download.got
                 more == download'.got
      <4>1. /\ got = Sent(u, k - 1) /\ chunks = Sent(u, Chunks[u])
            /\ Len(chunks) = Chunks[u] /\ Chunks[u] \in Nat /\ u \in Upload
        BY <2>2, <3>4
      <4>2. chunks[k] = <<u, k>>
        BY <2>1, <2>3, <4>1 DEF Sent
      <4>3. Len(got) = k - 1 /\ \A i \in 1..(k - 1) : got[i] = <<u, i>>
        BY <2>1, <4>1 DEF Sent
      <4>4. /\ more = Append(got, <<u, k>>) /\ got \in Seq(Piece)
            /\ more \in Seq(Piece)
        BY <2>1, <3>2, <3>3, <4>2
      <4> HIDE DEF u, got, more, k, chunks
      <4>5. Len(more) = k /\ \A i \in 1..k : more[i] = <<u, i>>
        BY <2>1, <4>3, <4>4
      <4>6. more = Sent(u, k)
        <5>1. more \in [1..k -> Piece]
          BY <4>4, <4>5, LenProperties
        <5> QED
          BY <4>5, <5>1 DEF Sent
      <4> QED
        BY <2>1, <2>3, <4>1, <4>5, <4>6 DEF u, more
    <3>5. DownloadInv'
      BY <1>u, <1>w, <2>1, <2>2, <3>3, <3>4 DEF DownloadInv
    <3> QED
      BY <1>t, <1>u, <1>l, <3>3, <3>5, ReadStep DEF ArtTypeOK
  <2>4. CASE ~(k <= Len(chunks))
    <3>1. download' = [download EXCEPT !.pc = "ok"]
      BY <1>3, <2>4 DEF LocalRead
    <3>2. /\ download'.pc = "ok" /\ download'.path = download.path
          /\ download'.want = download.want /\ download'.got = download.got
          /\ download' \in [pc : {"idle", "read", "ok", "err"}, path : Destination,
                            got : Seq(Piece), want : Upload \cup {NoUpload}]
      BY <1>t, <2>1, <3>1 DEF ArtTypeOK
    <3>3. download.want # NoUpload => Len(download.got) = Chunks[download.want]
      BY <2>1, <2>2, <2>4
    <3>4. DownloadInv'
      BY <1>t, <1>u, <1>w, <2>1, <2>2, <3>2, <3>3 DEF DownloadInv
    <3> QED
      BY <1>t, <1>u, <1>l, <3>2, <3>4, ReadStep DEF ArtTypeOK
  <2> QED
    BY <2>3, <2>4
<1> QED
  BY <1>1, <1>2, <1>3

\* A List and its pages: what is not passed by is before it.
LEMMA ListStep ==
    ASSUME ArtInv, List \/ LocalWalk \/ ServicePage \/ ListFails
    PROVE  ArtInv'
<1> DEFINE Kind == [pc : {"idle", "page", "ok", "err"}, after : Nat,
                    paths : SUBSET Path, must : SUBSET Path]
<1>t. /\ ArtTypeOK /\ DownloadInv /\ ListingInv /\ ObjectInv /\ TypeObject
      /\ listing \in Kind
      /\ listing.after \in Nat /\ listing.paths \subseteq Path
      /\ listing.must \subseteq Path
  BY DEF ArtInv, ArtTypeOK
<1>u. UNCHANGED <<store, object, upload, download, settled>>
  BY DEF List, LocalWalk, ServicePage, ListFails
<1>d. DownloadInv'
  BY <1>t, <1>u DEF DownloadInv, Whole, Busy
<1>r. listing' \in Kind /\ ListingInv' => ArtInv'
  BY <1>t, <1>u, <1>d, ReadStep DEF ArtTypeOK
<1>o. \A p \in DOMAIN object : p \in Path /\ \E u \in Upload :
        upload[u].pc # "idle" /\ upload[u].path = p
  BY <1>t DEF TypeObject, ObjectInv
<1>e. ASSUME NEW pc \in {"ok", "err"}, listing' = [listing EXCEPT !.pc = pc],
             pc = "ok" => store # "artifactory" /\ listing.must \subseteq listing.paths
      PROVE  ArtInv'
  <2>1. /\ listing'.pc = pc /\ listing'.must = listing.must
        /\ listing'.paths = listing.paths /\ listing' \in Kind
    BY <1>e, <1>t
  <2>2. ListingInv'
    BY <1>e, <1>t, <1>u, <2>1 DEF ListingInv
  <2> QED
    BY <1>r, <2>1, <2>2
<1>1. CASE List
  <2> DEFINE must == {upload[u].path : u \in {w \in Upload : upload[w].pc = "ok"}}
             pc == IF store = "artifactory" THEN "err" ELSE "page"
  <2>1. listing' = [pc |-> pc, after |-> 0, paths |-> {}, must |-> must]
    BY <1>1 DEF List
  <2>2. must \subseteq DOMAIN object
    BY DEF ArtInv, UploadInv
  <2>3. must \subseteq Path /\ \A p \in must : p > 0 /\ Dir[p] > 0
    <3>1. \A p \in Path : p > 0 /\ Dir[p] > 0
      BY PathAssumption
    <3> HIDE DEF must
    <3> QED
      BY <2>2, <3>1, <1>o
  <2>4. /\ listing'.pc = pc /\ listing'.after = 0 /\ listing'.paths = {}
        /\ listing'.must = must /\ listing' \in Kind
    <3> HIDE DEF must
    <3> QED
      BY <2>1, <2>3
  <2>5. ListingInv'
    <3> HIDE DEF must
    <3> QED
      BY <1>u, <2>2, <2>3, <2>4 DEF ListingInv
  <2> QED
    BY <1>r, <2>4, <2>5
<1>2. CASE LocalWalk
  <2> DEFINE dirs == {Dir[p] : p \in DOMAIN object}
             left == {d \in dirs : d > listing.after}
             here == {p \in DOMAIN object : Dir[p] = Min(left)}
  <2>1. store = "local" /\ listing.pc = "page"
    BY <1>2 DEF LocalWalk
  <2>2. \A p \in DOMAIN object :
          Dir[p] \in Nat /\ (Dir[p] > listing.after => Dir[p] \in left)
    BY <1>o, PathAssumption
  <2>3. CASE left = {}
    <3>1. listing' = [listing EXCEPT !.pc = "ok"]
      BY <1>2, <2>3 DEF LocalWalk
    <3>2. listing.must \subseteq listing.paths
      BY <1>t, <2>1, <2>2, <2>3 DEF ListingInv
    <3> QED
      BY <1>e, <2>1, <3>1, <3>2
  <2>4. CASE left # {}
    <3>1. listing' = [listing EXCEPT !.after = Min(left), !.paths = @ \cup here]
      BY <1>2, <2>4 DEF LocalWalk
    <3>2. left \in SUBSET Nat
      BY <2>2
    <3>3. Min(left) \in Nat /\ \A d \in left : Min(left) <= d
      <4> HIDE DEF left
      <4> QED
        BY <2>4, <3>2, LeastOf
    <3>4. here \subseteq DOMAIN object /\ here \subseteq Path
      BY <1>o
    <3> HIDE DEF here, left
    <3>5. /\ listing'.pc = "page" /\ listing'.after = Min(left)
          /\ listing'.paths = listing.paths \cup here /\ listing'.must = listing.must
          /\ listing' \in Kind
      BY <1>t, <2>1, <3>1, <3>3, <3>4
    <3>6. ASSUME NEW p \in listing.must, p \notin listing.paths \cup here
          PROVE  Dir[p] > Min(left)
      <4>1. p \in DOMAIN object /\ Dir[p] > listing.after
        BY <1>t, <2>1, <3>6 DEF ListingInv
      <4>2. Dir[p] \in Nat /\ Min(left) <= Dir[p] /\ Dir[p] # Min(left)
        BY <2>2, <3>3, <3>6, <4>1 DEF here
      <4> QED
        BY <3>3, <4>2
    <3>7. ListingInv'
      BY <1>t, <1>u, <1>o, <2>1, <3>4, <3>5, <3>6 DEF ListingInv
    <3> QED
      BY <1>r, <3>5, <3>7
  <2> QED
    BY <2>3, <2>4
<1>3. CASE ServicePage
  <2>1. store # "local" /\ store # "artifactory" /\ listing.pc = "page"
    BY <1>3 DEF ServicePage
  <2>2. /\ Page \subseteq DOMAIN object
        /\ \A q \in DOMAIN object : q > listing.after =>
             Page # {} /\ (q \in Page \/ q > Max(Page))
        /\ Page # {} => Max(Page) \in Nat
    BY PageComplete
  <2>3. CASE Page = {}
    <3>1. listing' = [listing EXCEPT !.pc = "ok"]
      BY <1>3, <2>3 DEF ServicePage
    <3>2. listing.must \subseteq listing.paths
      BY <1>t, <2>1, <2>2, <2>3 DEF ListingInv
    <3> QED
      BY <1>e, <2>1, <3>1, <3>2
  <2>4. CASE Page # {}
    <3>1. listing' = [listing EXCEPT !.paths = @ \cup Page, !.after = Max(Page)]
      BY <1>3, <2>4 DEF ServicePage
    <3>2. Page \subseteq Path
      BY <1>o, <2>2
    <3>3. /\ listing'.pc = "page" /\ listing'.after = Max(Page)
          /\ listing'.paths = listing.paths \cup Page /\ listing'.must = listing.must
          /\ listing' \in Kind
      BY <1>t, <2>1, <2>2, <2>4, <3>1, <3>2
    <3>4. ListingInv'
      BY <1>t, <1>u, <1>o, <2>1, <2>2, <3>3 DEF ListingInv
    <3> QED
      BY <1>r, <3>3, <3>4
  <2> QED
    BY <2>3, <2>4
<1>4. CASE ListFails
  BY <1>4, <1>e DEF ListFails
<1> QED
  BY <1>1, <1>2, <1>3, <1>4

-----------------------------------------------------------------------------
(* Artifacts: theorems *)

\* Calls, objects and readers have their types, and an object that the last
\* upload of its path has left, alone, is the whole of what it was given.
THEOREM ArtifactsTypeCorrect == ArtifactsSpec => []ArtInv
<1>1. ASSUME ArtifactsInit PROVE ArtInv
  <2>1. TypeObject /\ ObjectInv /\ 0 \in Destination /\ "idle" \in UploadPlace
    BY <1>1 DEF ArtifactsInit, TypeObject, ObjectInv, Destination, UploadPlace
  <2>2. upload \in [Upload -> Call] /\ \A u \in Upload : UploadInv(u)
    BY <1>1, <2>1, ChunksAssumption DEF ArtifactsInit, Call, UploadInv, Busy
  <2>3. DownloadInv /\ ListingInv
    BY <1>1 DEF ArtifactsInit, NoDownload, NoListing, DownloadInv, ListingInv
  <2>4. ArtTypeOK
    BY <1>1, <2>1, <2>2 DEF ArtifactsInit, NoDownload, NoListing, ArtTypeOK
  <2> QED
    BY <1>1, <2>1, <2>2, <2>3, <2>4 DEF ArtifactsInit, ArtInv
<1>2. ASSUME ArtInv, [ArtifactsNext]_avars PROVE ArtInv'
  <2>1. CASE ArtifactsNext
    BY <1>2, <2>1, BeginStep, UploadStep, DownloadStep, ListStep DEF ArtifactsNext
  <2>2. CASE UNCHANGED avars
    BY <1>2, <2>2 DEF avars, ArtInv, ArtTypeOK, TypeObject, UploadInv, Busy, Whole,
       ObjectInv, DownloadInv, ListingInv
  <2> QED
    BY <1>2, <2>1, <2>2
<1> QED
  BY <1>1, <1>2, PTL DEF ArtifactsSpec

\* What is read to its end is the whole of the last upload, for any uploads,
\* sizes and paths.
THEOREM ArtifactsUploadedServed == ArtifactsSpec => []UploadedServed
<1>1. ASSUME ArtInv PROVE UploadedServed
  <2>1. SUFFICES ASSUME download.pc = "ok", download.want # NoUpload
                 PROVE  download.got = Content(download.want)
    BY DEF UploadedServed
  <2>2. download.want \in Upload /\ DownloadInv
    BY <1>1, <2>1 DEF ArtInv, ArtTypeOK
  <2> QED
    BY <2>1, <2>2, SentChunks DEF DownloadInv
<1> QED
  BY <1>1, ArtifactsTypeCorrect, PTL

\* A List that returns nil has all that was there when it was called, whatever
\* the size of a page and the paths that come and are overwritten meanwhile.
THEOREM ArtifactsListedWhole == ArtifactsSpec => []ListedWhole
<1>1. ArtInv => ListedWhole
  BY DEF ArtInv, ListingInv, ListedWhole
<1> QED
  BY <1>1, ArtifactsTypeCorrect, PTL

-----------------------------------------------------------------------------
(* Secret backends: every step is a step of the registers or none *)

Records == [pc : {"idle", "sent", "answered", "returned"},
            op : {"Get", "Set", "Delete"}, name : Secret,
            value : Datum \cup {NoValue},
            request : {"none", "read", "put", "create", "add", "remove"},
            status : {"none", "ok", "missing", "exists", "failed"},
            out : BOOLEAN, took : BOOLEAN, ok : BOOLEAN]

\* Requests that may come late: writes.
LateRequests ==
    [request : {"put", "create", "add"}, name : Secret, value : Datum]
      \cup [request : {"remove"}, name : Secret, value : {NoValue}]

BackendsTypeOK ==
    /\ backend \in {"vault", "gcp", "ssm"}
    /\ entry \in [Secret -> Datum \cup NoDatum]
    /\ call \in [Caller -> Records]
    /\ lost \subseteq LateRequests

\* Only the mount of Vault has entries of other programs.
ForeignOnlyInVault == \A n \in Secret : entry[n] = "foreign" => backend = "vault"

\* The request of a call fits its operation and the backend.
Fits(b, r) ==
    /\ r.op = "Get" => r.request = "read"
    /\ r.op = "Delete" => r.request = "remove" /\ r.value = NoValue
    /\ r.op = "Set" => r.request \in {"put", "create", "add"} /\ r.value \in Datum
    /\ r.request \in {"create", "add"} => b = "gcp"
    /\ ~r.ok

\* An answer without an error tells that the service did what was asked.
Tells(b, r) ==
    /\ r.request = "create" => ~r.took
    /\ r.request # "create" /\ r.status = "ok" => r.took
    /\ r.request = "remove" /\ r.status = "missing" => r.took
    /\ r.request = "read" /\ r.status = "ok" /\ b # "vault" => r.value # NoValue
    /\ r.out => r.status = "failed" /\ r.request # "read"
    /\ r.out /\ r.took => b = "ssm"

\* Only a request that is sent again finds its call done, and none is out twice.
Fresh(b, r) == ~r.out /\ (r.took => b = "ssm" \/ r.request = "read")

CallsConsistent ==
    \A c \in Caller :
      /\ call[c].pc \in {"sent", "answered"} => Fits(backend, call[c])
      /\ call[c].pc = "sent" => Fresh(backend, call[c])
      /\ call[c].pc = "answered" => Tells(backend, call[c])

\* BackendsInv: what the refinement needs to know of the reachable states.
BackendsInv == BackendsTypeOK /\ ForeignOnlyInVault /\ CallsConsistent
-----------------------------------------------------------------------------

\* Initially no call is made and nothing is stored.
LEMMA InvInitially == BackendsInit => BackendsInv
  BY DatumAssumption
  DEF BackendsInit, BackendsInv, BackendsTypeOK, ForeignOnlyInVault,
      CallsConsistent, Idle, Records, NoDatum

\* A step that changes one call, to a record that fits, keeps the invariant.
LEMMA OneCall ==
  ASSUME BackendsInv, NEW c \in Caller, NEW r \in Records,
         call' = [call EXCEPT ![c] = r], backend' = backend,
         entry' \in [Secret -> Datum \cup NoDatum],
         ForeignOnlyInVault', lost' \subseteq LateRequests,
         r.pc \in {"sent", "answered"} => Fits(backend, r),
         r.pc = "sent" => Fresh(backend, r),
         r.pc = "answered" => Tells(backend, r)
  PROVE  BackendsInv'
<1>1. BackendsTypeOK'
  BY DEF BackendsInv, BackendsTypeOK
<1>2. ASSUME NEW d \in Caller
      PROVE  /\ call'[d].pc \in {"sent", "answered"} => Fits(backend', call'[d])
             /\ call'[d].pc = "sent" => Fresh(backend', call'[d])
             /\ call'[d].pc = "answered" => Tells(backend', call'[d])
  <2>1. CASE d = c
    <3>1. call'[d] = r
      BY <2>1 DEF BackendsInv, BackendsTypeOK
    <3>. QED BY <3>1
  <2>2. CASE d # c
    <3>1. call'[d] = call[d]
      BY <2>2 DEF BackendsInv, BackendsTypeOK
    <3>. QED BY <3>1 DEF BackendsInv, CallsConsistent
  <2>. QED BY <2>1, <2>2
<1>. QED BY <1>1, <1>2 DEF BackendsInv, CallsConsistent

\* What a call leaves behind is a write.
LEMMA LeftIsWrite ==
  ASSUME BackendsInv, NEW c \in Caller, call[c].pc = "answered"
  PROVE  Left(call[c]) \subseteq LateRequests
<1> DEFINE q == call[c]
<1>1. q \in Records /\ Fits(backend, q) /\ Tells(backend, q)
  BY DEF BackendsInv, BackendsTypeOK, CallsConsistent
<1>2. CASE q.out
  <2>1. q.request # "read" /\ q.op \in {"Get", "Set", "Delete"} /\ q.name \in Secret
    BY <1>1, <1>2 DEF Tells, Records
  <2>2. \/ q.request \in {"put", "create", "add"} /\ q.value \in Datum
        \/ q.request = "remove" /\ q.value = NoValue
    BY <1>1, <2>1 DEF Fits
  <2>3. [request |-> q.request, name |-> q.name, value |-> q.value] \in LateRequests
    BY <2>1, <2>2 DEF LateRequests
  <2>. QED BY <2>3 DEF Left
<1>3. CASE ~q.out
  BY <1>3 DEF Left
<1>. QED BY <1>2, <1>3

\* A call that returns keeps the invariant, whatever it returns.
LEMMA ReturnsKeeps ==
  ASSUME BackendsInv, NEW c \in Caller, NEW ok \in BOOLEAN,
         call[c].pc = "answered", Returns(c, ok)
  PROVE  BackendsInv'
<1> DEFINE r == [call[c] EXCEPT !.pc = "returned", !.ok = ok, !.out = FALSE]
<1>1. call[c] \in Records
  BY DEF BackendsInv, BackendsTypeOK
<1>2. r \in Records /\ r.pc = "returned"
  BY <1>1 DEF Records
<1>3. call' = [call EXCEPT ![c] = r]
  BY DEF Returns, BackendsInv, BackendsTypeOK
<1>4. backend' = backend /\ entry' = entry
  BY DEF Returns
<1>5. entry' \in [Secret -> Datum \cup NoDatum] /\ ForeignOnlyInVault'
  BY <1>4 DEF BackendsInv, BackendsTypeOK, ForeignOnlyInVault
<1>6. lost' \subseteq LateRequests
  BY LeftIsWrite DEF Returns, BackendsInv, BackendsTypeOK
<1>. HIDE DEF r
<1>. QED BY <1>2, <1>3, <1>4, <1>5, <1>6, OneCall

\* A request that is sent keeps the invariant.
LEMMA CallKeeps ==
  ASSUME BackendsInv, NEW c \in Caller, NEW o \in {"Get", "Set", "Delete"},
         NEW n \in Secret, NEW v \in Datum \cup {NoValue}, CallBackend(c, o, n, v)
  PROVE  BackendsInv'
<1> DEFINE r == [pc |-> "sent", op |-> o, name |-> n, value |-> v,
                 request |-> FirstRequest(o), status |-> "none", out |-> FALSE,
                 took |-> FALSE, ok |-> FALSE]
<1>1. FirstRequest(o) \in {"read", "put", "create", "remove"}
  BY DEF FirstRequest
<1>2. r \in Records /\ r.pc = "sent" /\ Fresh(backend, r)
  BY <1>1 DEF Records, Fresh
<1>3. Fits(backend, r)
  BY DatumAssumption DEF Fits, CallBackend, FirstRequest
<1>4. call' = [call EXCEPT ![c] = r] /\ UNCHANGED <<backend, entry, lost>>
  BY DEF CallBackend
<1>5. /\ entry' \in [Secret -> Datum \cup NoDatum] /\ ForeignOnlyInVault'
      /\ lost' \subseteq LateRequests
  BY <1>4 DEF BackendsInv, BackendsTypeOK, ForeignOnlyInVault
<1>. HIDE DEF r
<1>. QED BY <1>2, <1>3, <1>4, <1>5, OneCall

\* A request that is sent again keeps it too.
LEMMA ResendKeeps ==
  ASSUME BackendsInv, NEW c \in Caller, Resend(c)
  PROVE  BackendsInv'
<1> DEFINE r == [call[c] EXCEPT !.pc = "sent", !.status = "none", !.out = FALSE]
<1>1. call[c] \in Records /\ call[c].pc = "answered" /\ Fits(backend, call[c])
  BY DEF BackendsInv, BackendsTypeOK, Resend, CallsConsistent
<1>2. r \in Records /\ r.pc = "sent"
  BY <1>1 DEF Records
<1>3. Fits(backend, r) /\ Fresh(backend, r)
  BY <1>1 DEF Records, Fits, Fresh, Resend
<1>4. call' = [call EXCEPT ![c] = r] /\ backend' = backend /\ entry' = entry
  BY DEF Resend, BackendsInv, BackendsTypeOK
<1>5. entry' \in [Secret -> Datum \cup NoDatum] /\ ForeignOnlyInVault'
  BY <1>4 DEF BackendsInv, BackendsTypeOK, ForeignOnlyInVault
<1>6. lost' \subseteq LateRequests
  BY <1>1, LeftIsWrite DEF Resend, BackendsInv, BackendsTypeOK
<1>. HIDE DEF r
<1>. QED BY <1>2, <1>3, <1>4, <1>5, <1>6, OneCall

\* What a late request leaves is an entry of the service.
LEMMA LateLeaves ==
  ASSUME NEW q \in LateRequests, NEW e \in Datum \cup NoDatum
  PROVE  /\ Leaves(q.request, e, q.value) \in Datum \cup NoDatum
         /\ Leaves(q.request, e, q.value) = "foreign" => e = "foreign"
         /\ q.request = "create" => Stored(Leaves(q.request, e, q.value)) = Stored(e)
         /\ q.request # "create" =>
              Stored(Leaves(q.request, e, q.value)) \in {Stored(e), q.value}
<1>1. CASE q.request = "remove"
  <2>1. Leaves(q.request, e, q.value) = "absent" /\ q.value = NoValue
    BY <1>1 DEF Leaves, LateRequests
  <2>. QED BY <1>1, <2>1, DatumAssumption DEF NoDatum, Stored
<1>2. CASE q.request # "remove"
  <2>1. q.request \in {"put", "create", "add"} /\ q.value \in Datum
    BY <1>2 DEF LateRequests
  <2>. QED BY <2>1, DatumAssumption DEF NoDatum, Stored, Leaves
<1>. QED BY <1>1, <1>2

\* A request that comes late keeps the invariant.
LEMMA LateKeeps ==
  ASSUME BackendsInv, NEW q \in lost, ServiceDoesLate(q)
  PROVE  BackendsInv'
<1> DEFINE left == Leaves(q.request, entry[q.name], q.value)
<1>1. q \in LateRequests /\ q.name \in Secret
  BY DEF BackendsInv, BackendsTypeOK, LateRequests
<1>2. entry[q.name] \in Datum \cup NoDatum
  BY <1>1 DEF BackendsInv, BackendsTypeOK
<1>3. left \in Datum \cup NoDatum /\ (left = "foreign" => entry[q.name] = "foreign")
  BY <1>1, <1>2, LateLeaves
<1>4. /\ entry' = [entry EXCEPT ![q.name] = left] /\ lost' \subseteq lost
      /\ backend' = backend /\ call' = call
  BY DEF ServiceDoesLate
<1>. HIDE DEF left
<1>5. entry' \in [Secret -> Datum \cup NoDatum] /\ ForeignOnlyInVault'
  BY <1>1, <1>3, <1>4 DEF BackendsInv, BackendsTypeOK, ForeignOnlyInVault
<1>6. BackendsTypeOK'
  BY <1>4, <1>5 DEF BackendsInv, BackendsTypeOK
<1>7. CallsConsistent'
  BY <1>4 DEF BackendsInv, CallsConsistent
<1>. QED BY <1>5, <1>6, <1>7 DEF BackendsInv

\* What the service does keeps the invariant: what it answers when it does
\* not do what is asked is no answer that a call takes for success.
LEMMA DoesKeeps ==
  ASSUME BackendsInv, NEW c \in Caller, ServiceDoes(c)
  PROVE  BackendsInv'
<1> DEFINE q == call[c]
<1> DEFINE e == entry[q.name]
<1> DEFINE answer == Answer(q.request, e)
<1> DEFINE took == \/ q.took
                   \/ q.request \in {"read", "put", "remove"}
                   \/ (q.request = "add" /\ answer = "ok")
<1> DEFINE value == IF q.request = "read" THEN Stored(e) ELSE q.value
<1>1. q \in Records /\ e \in Datum \cup NoDatum /\ q.name \in Secret
  BY DEF BackendsInv, BackendsTypeOK, Records
<1>2. q.pc = "sent" /\ Fits(backend, q) /\ Fresh(backend, q)
  BY DEF ServiceDoes, BackendsInv, CallsConsistent
<1>3. PICK status \in {answer, "failed"} : call' = [call EXCEPT
        ![c].pc = "answered", ![c].status = status, ![c].took = took,
        ![c].value = value]
  BY Zenon DEF ServiceDoes
<1> DEFINE r == [q EXCEPT !.pc = "answered", !.status = status, !.took = took,
                          !.value = value]
<1>4. call' = [call EXCEPT ![c] = r]
  BY <1>3 DEF BackendsInv, BackendsTypeOK
<1>5. q.request \in {"read", "put", "create", "add", "remove"}
  BY <1>1, <1>2 DEF Fits, Records
<1>6. answer \in {"ok", "missing", "exists"}
  BY <1>5 DEF Answer
<1>7. value \in Datum \cup {NoValue}
  BY <1>1 DEF Stored, Records
<1>8. r \in Records /\ r.pc = "answered"
  BY <1>1, <1>6, <1>7 DEF Records
<1>9. Fits(backend, r)
  BY <1>1, <1>2 DEF Fits, Records
<1>10. backend' = backend /\ lost' = lost
       /\ entry' = [entry EXCEPT ![q.name] = Leaves(q.request, e, q.value)]
  BY DEF ServiceDoes
<1>11. Leaves(q.request, e, q.value) \in Datum \cup NoDatum
  BY <1>1, <1>2, <1>5 DEF Leaves, Fits, NoDatum, Records
<1>12. Leaves(q.request, e, q.value) = "foreign" => e = "foreign"
  BY <1>1, <1>2, <1>5, DatumAssumption DEF Leaves, Fits, NoDatum, Records
<1>13. entry' \in [Secret -> Datum \cup NoDatum] /\ ForeignOnlyInVault'
  BY <1>1, <1>10, <1>11, <1>12 DEF BackendsInv, BackendsTypeOK, ForeignOnlyInVault
<1>14. Tells(backend, r)
  BY <1>1, <1>2, <1>5, <1>6, DatumAssumption
  DEF Tells, Fits, Fresh, Answer, Stored, Records, NoDatum, BackendsInv,
      ForeignOnlyInVault
<1>15. lost' \subseteq LateRequests
  BY <1>10 DEF BackendsInv, BackendsTypeOK
<1>. HIDE DEF r
<1>. QED BY <1>4, <1>8, <1>9, <1>10, <1>13, <1>14, <1>15, OneCall

\* A request that fails keeps the invariant.
LEMMA FailsKeeps ==
  ASSUME BackendsInv, NEW c \in Caller, ServiceFails(c)
  PROVE  BackendsInv'
<1>1. PICK out \in BOOLEAN :
        /\ out => call[c].request # "read"
        /\ call' = [call EXCEPT ![c].pc = "answered", ![c].status = "failed",
                                ![c].out = out]
  BY DEF ServiceFails
<1> DEFINE r == [call[c] EXCEPT !.pc = "answered", !.status = "failed", !.out = out]
<1>2. /\ call[c] \in Records /\ call[c].pc = "sent"
      /\ Fits(backend, call[c]) /\ Fresh(backend, call[c])
  BY DEF BackendsInv, BackendsTypeOK, ServiceFails, CallsConsistent
<1>3. r \in Records /\ r.pc = "answered"
  BY <1>2 DEF Records
<1>4. Fits(backend, r) /\ Tells(backend, r)
  BY <1>1, <1>2 DEF Records, Fits, Fresh, Tells
<1>5. call' = [call EXCEPT ![c] = r] /\ UNCHANGED <<backend, entry, lost>>
  BY <1>1 DEF ServiceFails, BackendsInv, BackendsTypeOK
<1>6. /\ entry' \in [Secret -> Datum \cup NoDatum] /\ ForeignOnlyInVault'
      /\ lost' \subseteq LateRequests
  BY <1>5 DEF BackendsInv, BackendsTypeOK, ForeignOnlyInVault
<1>. HIDE DEF r
<1>. QED BY <1>3, <1>4, <1>5, <1>6, OneCall

\* The second request of GCP's Set keeps the invariant.
LEMMA CreatedKeeps ==
  ASSUME BackendsInv, NEW c \in Caller, GCPSetCreated(c)
  PROVE  BackendsInv'
<1>1. CASE call[c].status \in {"ok", "exists"}
  <2> DEFINE r == [call[c] EXCEPT !.pc = "sent", !.request = "add"]
  <2>1. /\ call[c] \in Records /\ Fits(backend, call[c]) /\ ~call[c].took
        /\ call[c].request = "create" /\ backend = "gcp" /\ ~call[c].out
    BY <1>1 DEF BackendsInv, BackendsTypeOK, GCPSetCreated, Answered, CallsConsistent,
           Tells
  <2>2. r \in Records /\ r.pc = "sent" /\ Fresh(backend, r)
    BY <2>1 DEF Records, Fresh
  <2>3. Fits(backend, r)
    BY <2>1 DEF Records, Fits
  <2>4. call' = [call EXCEPT ![c] = r] /\ UNCHANGED <<backend, entry, lost>>
    BY <1>1 DEF GCPSetCreated, BackendsInv, BackendsTypeOK
  <2>5. /\ entry' \in [Secret -> Datum \cup NoDatum] /\ ForeignOnlyInVault'
        /\ lost' \subseteq LateRequests
    BY <2>4 DEF BackendsInv, BackendsTypeOK, ForeignOnlyInVault
  <2>. HIDE DEF r
  <2>. QED BY <2>2, <2>3, <2>4, <2>5, OneCall
<1>2. CASE call[c].status \notin {"ok", "exists"}
  BY <1>2, ReturnsKeeps DEF GCPSetCreated, Answered
<1>. QED BY <1>1, <1>2

\* The call of one request reports what its service answered.
LEMMA Reported ==
  ASSUME BackendsInv, NEW c \in Caller,
         \/ VaultGet(c) \/ VaultSet(c) \/ VaultDelete(c)
         \/ SSMGet(c) \/ SSMSet(c) \/ SSMDelete(c)
         \/ GCPGet(c) \/ GCPSetAdded(c) \/ GCPDelete(c)
  PROVE  \E ok \in BOOLEAN :
           /\ Returns(c, ok)
           /\ call[c].pc = "answered"
           /\ ok => call[c].took /\ ~call[c].out
           /\ ok /\ call[c].op = "Get" => call[c].value # NoValue
<1>1. call[c].pc = "answered" => Fits(backend, call[c]) /\ Tells(backend, call[c])
  BY DEF BackendsInv, CallsConsistent
<1>2. CASE VaultGet(c)
  <2> DEFINE ok == call[c].status = "ok" /\ call[c].value # NoValue
  <2>1. ok \in BOOLEAN /\ Returns(c, ok)
    BY <1>2, Zenon DEF VaultGet
  <2>2. /\ call[c].pc = "answered" /\ (ok => call[c].took /\ ~call[c].out)
        /\ ok /\ call[c].op = "Get" => call[c].value # NoValue
    BY <1>1, <1>2 DEF VaultGet, Answered, Tells
  <2>. QED BY <2>1, <2>2, Zenon
<1>3. CASE VaultDelete(c)
  <2> DEFINE ok == call[c].status \in {"ok", "missing"}
  <2>1. Returns(c, ok)
    BY <1>3 DEF VaultDelete
  <2>3. ok \in BOOLEAN
    OBVIOUS
  <2>2. /\ call[c].pc = "answered" /\ (ok => call[c].took /\ ~call[c].out)
        /\ call[c].op # "Get"
    BY <1>1, <1>3 DEF VaultDelete, Answered, Tells, Fits
  <2>. HIDE DEF ok
  <2>. QED BY <2>1, <2>2, <2>3, Zenon
<1>4. CASE \/ VaultSet(c) \/ SSMGet(c) \/ SSMSet(c) \/ SSMDelete(c)
           \/ GCPGet(c) \/ GCPSetAdded(c) \/ GCPDelete(c)
  <2> DEFINE ok == call[c].status = "ok"
  <2>1. ok \in BOOLEAN /\ Returns(c, ok)
    BY <1>4, Zenon
    DEF VaultSet, SSMGet, SSMSet, SSMDelete, GCPGet, GCPSetAdded, GCPDelete
  <2>2. /\ call[c].pc = "answered" /\ (ok => call[c].took /\ ~call[c].out)
        /\ ok /\ call[c].op = "Get" => call[c].value # NoValue
    BY <1>1, <1>4
    DEF VaultSet, SSMGet, SSMSet, SSMDelete, GCPGet, GCPSetAdded, GCPDelete,
        Answered, Tells, Fits
  <2>. QED BY <2>1, <2>2, Zenon
<1>. QED BY <1>2, <1>3, <1>4

\* BackendsInv is inductive.
LEMMA InvKept == BackendsInv /\ [BackendsNext]_bvars => BackendsInv'
<1> SUFFICES ASSUME BackendsInv, [BackendsNext]_bvars PROVE BackendsInv'
  OBVIOUS
<1>1. CASE UNCHANGED bvars
  BY <1>1 DEF bvars, BackendsInv, BackendsTypeOK, ForeignOnlyInVault, CallsConsistent
<1>2. ASSUME NEW n \in Secret, Foreign(n) PROVE BackendsInv'
  BY <1>2 DEF Foreign, BackendsInv, BackendsTypeOK, ForeignOnlyInVault,
              CallsConsistent, NoDatum
<1>3. ASSUME NEW c \in Caller, NEW o \in {"Get", "Set", "Delete"}, NEW n \in Secret,
             NEW v \in Datum \cup {NoValue}, CallBackend(c, o, n, v)
      PROVE  BackendsInv'
  BY <1>3, CallKeeps
<1>4. ASSUME NEW c \in Caller,
             ServiceDoes(c) \/ ServiceFails(c) \/ Resend(c) \/ GCPSetCreated(c)
      PROVE  BackendsInv'
  BY <1>4, DoesKeeps, FailsKeeps, ResendKeeps, CreatedKeeps
<1>5. ASSUME NEW q \in lost, ServiceDoesLate(q) PROVE BackendsInv'
  BY <1>5, LateKeeps
<1>6. ASSUME NEW c \in Caller,
             \/ VaultGet(c) \/ VaultSet(c) \/ VaultDelete(c)
             \/ SSMGet(c) \/ SSMSet(c) \/ SSMDelete(c)
             \/ GCPGet(c) \/ GCPSetAdded(c) \/ GCPDelete(c)
      PROVE  BackendsInv'
  BY <1>6, Reported, ReturnsKeeps
<1>. QED BY <1>1, <1>2, <1>3, <1>4, <1>5, <1>6 DEF BackendsNext
-----------------------------------------------------------------------------
(* Refinement *)

\* One operation of the abstract store per caller.
op == [d \in Caller |-> Abstracted(call[d])]
register == [n \in Secret |-> Stored(entry[n])]
resends == backend = "ssm"

\* What a call leaves behind is a late write of its operation, unless it only
\* creates a secret.
LEMMA LeftIsLate ==
  ASSUME BackendsInv, NEW c \in Caller, call[c].pc = "answered",
         lost' = lost \cup Left(call[c])
  PROVE  /\ ~call[c].out => LateWrites' = LateWrites
         /\ \/ LateWrites' = LateWrites
            \/ LateWrites' = LateWrites \cup Promise!Write(c)
<1> DEFINE q == call[c]
<1> DEFINE w == [request |-> q.request, name |-> q.name, value |-> q.value]
<1>1. q \in Records /\ Fits(backend, q) /\ Tells(backend, q)
  BY DEF BackendsInv, BackendsTypeOK, CallsConsistent
<1>2. CASE ~q.out
  BY <1>2 DEF Left, LateWrites
<1>3. CASE q.out
  <2>1. lost' = lost \cup {w}
    BY <1>3 DEF Left
  <2>2. CASE q.request = "create"
    BY <1>3, <2>1, <2>2 DEF LateWrites
  <2>3. CASE q.request # "create"
    <3>1. LateWrites' = LateWrites \cup {[name |-> q.name, value |-> q.value]}
      <4>1. w.request # "create" /\ w.name = q.name /\ w.value = q.value
        BY <2>3
      <4>. HIDE DEF w, q
      <4>2. {r \in lost' : r.request # "create"}
              = {r \in lost : r.request # "create"} \cup {w}
        BY <2>1, <4>1
      <4>. QED BY <4>1, <4>2, Zenon DEF LateWrites
    <3>2. q.op # "Get"
      BY <1>1, <1>3 DEF Fits, Tells
    <3>3. op[c].op = q.op /\ op[c].name = q.name /\ op[c].value = q.value
      BY DEF op, Abstracted
    <3>4. Promise!Write(c) = {[name |-> q.name, value |-> q.value]}
      BY <3>2, <3>3 DEF Promise!Write, op
    <3>. QED BY <1>3, <3>1, <3>4
  <2>. QED BY <2>2, <2>3
<1>. QED BY <1>2, <1>3

\* A step that changes one call changes one operation.
LEMMA OneOperation ==
  ASSUME BackendsInv, NEW c \in Caller, NEW r, call' = [call EXCEPT ![c] = r]
  PROVE  op' = [op EXCEPT ![c] = Abstracted(r)]
<1>1. \A d \in Caller : call'[d] = IF d = c THEN r ELSE call[d]
  BY DEF BackendsInv, BackendsTypeOK
<1>2. op' = [d \in Caller |-> Abstracted(call'[d])]
  BY DEF op
<1>3. [op EXCEPT ![c] = Abstracted(r)]
        = [d \in Caller |-> IF d = c THEN Abstracted(r) ELSE Abstracted(call[d])]
  BY DEF op
<1>. HIDE DEF op
<1>. QED BY <1>1, <1>2, <1>3

\* A call that returns nil has had its effect, and a Get has found a value.
\* So its return is Succeed or Fail of the abstract call.
LEMMA ReturnsMaps ==
  ASSUME BackendsInv, NEW c \in Caller, NEW ok \in BOOLEAN,
         call[c].pc = "answered", Returns(c, ok),
         ok => call[c].took /\ ~call[c].out,
         ok /\ call[c].op = "Get" => call[c].value # NoValue
  PROVE  Promise!Succeed(c) \/ Promise!Fail(c)
<1> DEFINE q == call[c]
<1> DEFINE r == [q EXCEPT !.pc = "returned", !.ok = ok, !.out = FALSE]
<1>1. q \in Records /\ Fits(backend, q) /\ Tells(backend, q)
  BY DEF BackendsInv, BackendsTypeOK, CallsConsistent
<1>2. call' = [call EXCEPT ![c] = r]
  BY DEF Returns, BackendsInv, BackendsTypeOK
<1>3. op' = [op EXCEPT ![c] = Abstracted(r)]
  BY <1>2, OneOperation
<1>4. register' = register /\ resends' = resends
  BY DEF register, resends, Returns
<1>5. Abstracted(r) = [pc |-> IF ok THEN "succeeded" ELSE "failed", op |-> q.op,
                       name |-> q.name, value |-> q.value]
  BY <1>1 DEF Abstracted, Records
<1>6. op[c] = [pc |-> IF q.took THEN "done" ELSE "called", op |-> q.op,
               name |-> q.name, value |-> q.value]
  BY <1>1 DEF op, Abstracted, Records
<1>7. CASE ok
  <2>1. Abstracted(r) = [op[c] EXCEPT !.pc = "succeeded"]
    BY <1>5, <1>6, <1>7
  <2>2. op' = [op EXCEPT ![c].pc = "succeeded"]
    BY <1>3, <2>1 DEF op
  <2>3. LateWrites' = LateWrites
    BY <1>7, LeftIsLate DEF Returns
  <2>. QED BY <2>2, <2>3, <1>4, <1>6, <1>7
       DEF Promise!Succeed, op, register, resends
<1>8. CASE ~ok
  <2>1. Abstracted(r) = [op[c] EXCEPT !.pc = "failed"]
    BY <1>5, <1>6, <1>8
  <2>2. op' = [op EXCEPT ![c].pc = "failed"]
    BY <1>3, <2>1 DEF op
  <2>3. \/ LateWrites' = LateWrites
        \/ /\ op[c].pc = "called" \/ resends
           /\ LateWrites' = LateWrites \cup Promise!Write(c)
    <3>1. CASE q.out
      <4>1. op[c].pc = "called" \/ resends
        BY <1>1, <1>6, <3>1 DEF Tells, resends
      <4>. QED BY <4>1, LeftIsLate DEF Returns
    <3>2. CASE ~q.out
      BY <3>2, LeftIsLate DEF Returns
    <3>. QED BY <3>1, <3>2
  <2>4. op[c].pc \in {"called", "done"}
    BY <1>6
  <2>. QED BY <2>2, <2>3, <2>4, <1>4 DEF Promise!Fail, op, register, resends
<1>. QED BY <1>7, <1>8

\* The first request begins the operation.
LEMMA CallMaps ==
  ASSUME BackendsInv, NEW c \in Caller, NEW o \in {"Get", "Set", "Delete"},
         NEW n \in Secret, NEW v \in Datum \cup {NoValue}, CallBackend(c, o, n, v)
  PROVE  Promise!Begin(c)
<1> DEFINE r == [pc |-> "sent", op |-> o, name |-> n, value |-> v,
                 request |-> FirstRequest(o), status |-> "none", out |-> FALSE,
                 took |-> FALSE, ok |-> FALSE]
<1>1. /\ call' = [call EXCEPT ![c] = r]
      /\ UNCHANGED <<resends, register, LateWrites>>
  BY DEF CallBackend, register, resends, LateWrites
<1>2. op' = [op EXCEPT ![c] = Abstracted(r)]
  <2>. HIDE DEF r
  <2>. QED BY <1>1, OneOperation
<1>3. Abstracted(r) = [pc |-> "called", op |-> o, name |-> n, value |-> v]
  BY DEF Abstracted
<1>4. op[c].pc \in {"idle", "succeeded", "failed"}
  BY DEF op, Abstracted, CallBackend
<1>5. v \in Datum <=> o = "Set"
  BY DEF CallBackend
<1>6. op' = [op EXCEPT ![c] = [pc |-> "called", op |-> o, name |-> n, value |-> v]]
  BY <1>2, <1>3
<1>7. UNCHANGED <<backend = "ssm", [m \in Secret |-> Stored(entry[m])], LateWrites>>
  BY <1>1 DEF register, resends
<1>8. \E o1 \in {"Get", "Set", "Delete"}, n1 \in Secret, v1 \in Datum \cup {NoValue} :
        /\ v1 \in Datum <=> o1 = "Set"
        /\ op' = [op EXCEPT ![c] = [pc |-> "called", op |-> o1, name |-> n1,
                                    value |-> v1]]
  BY <1>5, <1>6, Zenon
<1>. QED BY <1>4, <1>7, <1>8, Zenon DEF Promise!Begin, op

\* The request an operation is for takes effect on the register; that of GCP
\* which only creates the secret, or finds none to add to, changes nothing
\* that can be read.
LEMMA DoesMaps ==
  ASSUME BackendsInv, NEW c \in Caller, ServiceDoes(c)
  PROVE  Promise!Effect(c) \/ UNCHANGED <<resends, register, op, LateWrites>>
<1> DEFINE q == call[c]
<1> DEFINE e == entry[q.name]
<1> DEFINE answer == Answer(q.request, e)
<1> DEFINE took == \/ q.took
                   \/ q.request \in {"read", "put", "remove"}
                   \/ (q.request = "add" /\ answer = "ok")
<1> DEFINE value == IF q.request = "read" THEN Stored(e) ELSE q.value
<1> DEFINE left == Leaves(q.request, e, q.value)
<1>1. q \in Records /\ e \in Datum \cup NoDatum /\ q.name \in Secret
  BY DEF BackendsInv, BackendsTypeOK, Records
<1>2. q.pc = "sent" /\ Fits(backend, q) /\ Fresh(backend, q)
  BY DEF ServiceDoes, BackendsInv, CallsConsistent
<1>3. PICK status \in {answer, "failed"} : call' = [call EXCEPT
        ![c].pc = "answered", ![c].status = status, ![c].took = took,
        ![c].value = value]
  BY Zenon DEF ServiceDoes
<1> DEFINE r == [q EXCEPT !.pc = "answered", !.status = status, !.took = took,
                          !.value = value]
<1>4. call' = [call EXCEPT ![c] = r]
  BY <1>3 DEF BackendsInv, BackendsTypeOK
<1>5. op' = [op EXCEPT ![c] = Abstracted(r)]
  <2>. HIDE DEF r
  <2>. QED BY <1>4, OneOperation
<1>6. Abstracted(r) = [pc |-> IF took THEN "done" ELSE "called", op |-> q.op,
                       name |-> q.name, value |-> value]
  BY <1>1 DEF Abstracted, Records
<1>7. op[c] = [pc |-> IF q.took THEN "done" ELSE "called", op |-> q.op,
               name |-> q.name, value |-> q.value]
  BY <1>2 DEF op, Abstracted
<1>13. UNCHANGED <<resends, LateWrites>>
  BY DEF ServiceDoes, resends, LateWrites
<1>8. register' = [register EXCEPT ![q.name] = Stored(left)]
  <2>1. entry' = [entry EXCEPT ![q.name] = left]
    BY DEF ServiceDoes
  <2>2. \A n \in Secret : entry'[n] = IF n = q.name THEN left ELSE entry[n]
    BY <2>1 DEF BackendsInv, BackendsTypeOK
  <2>3. register' = [n \in Secret |-> Stored(entry'[n])]
    BY DEF register
  <2>. HIDE DEF left, q
  <2>. QED BY <2>2, <2>3 DEF register
<1>9. register[q.name] = Stored(e)
  BY <1>1 DEF register
<1>10. q.request \in {"read", "put", "create", "add", "remove"}
  BY <1>1, <1>2 DEF Fits, Records
<1>11. CASE took
  <2>1. q.op \in {"Get", "Set", "Delete"}
    BY <1>1 DEF Records
  <2>4. op[c].pc = "called" \/ (op[c].pc = "done" /\ (resends \/ op[c].op = "Get"))
    BY <1>2, <1>7, <2>1 DEF Fits, Fresh, resends
  <2>2. CASE q.op = "Get"
    <3>1. q.request = "read" /\ value = Stored(e) /\ left = e
      BY <1>2, <2>2 DEF Fits, Leaves
    <3>2. register' = register
      BY <1>8, <1>9, <3>1 DEF register
    <3>3. Abstracted(r) = [pc |-> "done", op |-> op[c].op, name |-> op[c].name,
                           value |-> register[op[c].name]]
      <4>. HIDE DEF r, took, value, q, e
      <4>. QED BY <1>6, <1>7, <1>9, <1>11, <3>1
    <3>4. op[c].op = "Get"
      BY <1>7, <2>2
    <3>. QED BY <1>5, <1>13, <2>4, <3>2, <3>3, <3>4
         DEF Promise!Effect, op, register, resends
  <2>3. CASE q.op # "Get"
    <3>1. value = q.value /\ Stored(left) = q.value
      BY <1>1, <1>2, <1>11, <2>1, <2>3, DatumAssumption
      DEF Fits, Fresh, Leaves, Answer, Stored, NoDatum
    <3>2. Abstracted(r) = [pc |-> "done", op |-> op[c].op, name |-> op[c].name,
                           value |-> op[c].value]
      <4>. HIDE DEF r, took, value, q
      <4>. QED BY <1>6, <1>7, <1>11, <3>1
    <3>3. register' = [register EXCEPT ![op[c].name] = op[c].value]
      BY <1>7, <1>8, <3>1
    <3>4. op[c].op # "Get"
      BY <1>7, <2>3
    <3>. QED BY <1>5, <1>13, <2>4, <3>2, <3>3, <3>4
         DEF Promise!Effect, op, register, resends
  <2>. QED BY <2>2, <2>3
<1>12. CASE ~took
  <2>1. value = q.value /\ Stored(left) = Stored(e)
    BY <1>1, <1>10, <1>12, DatumAssumption DEF Leaves, Answer, Stored, NoDatum
  <2>2. Abstracted(r) = op[c]
    BY <1>6, <1>7, <1>12, <2>1
  <2>. QED BY <1>5, <1>8, <1>9, <1>13, <2>1, <2>2 DEF op, register
<1>. QED BY <1>11, <1>12

\* A request that fails is no step of the abstract call.
LEMMA FailsMaps ==
  ASSUME BackendsInv, NEW c \in Caller, ServiceFails(c)
  PROVE  UNCHANGED <<resends, register, op, LateWrites>>
<1> DEFINE q == call[c]
<1>1. PICK out \in BOOLEAN : call' = [call EXCEPT ![c].pc = "answered",
                               ![c].status = "failed", ![c].out = out]
  BY DEF ServiceFails
<1> DEFINE r == [q EXCEPT !.pc = "answered", !.status = "failed", !.out = out]
<1>2. q \in Records /\ q.pc = "sent"
  BY DEF BackendsInv, BackendsTypeOK, ServiceFails
<1>3. call' = [call EXCEPT ![c] = r] /\ UNCHANGED <<resends, register, LateWrites>>
  BY <1>1 DEF ServiceFails, BackendsInv, BackendsTypeOK, register, resends, LateWrites
<1>4. op' = [op EXCEPT ![c] = Abstracted(r)]
  <2>. HIDE DEF r
  <2>. QED BY <1>3, OneOperation
<1>5. Abstracted(r) = Abstracted(q)
  BY <1>2 DEF Abstracted, Records
<1>. QED BY <1>3, <1>4, <1>5 DEF op

\* A request that is sent again leaves the one before for later.
LEMMA ResendMaps ==
  ASSUME BackendsInv, NEW c \in Caller, Resend(c)
  PROVE  Promise!Resend(c) \/ UNCHANGED <<resends, register, op, LateWrites>>
<1> DEFINE q == call[c]
<1> DEFINE r == [q EXCEPT !.pc = "sent", !.status = "none", !.out = FALSE]
<1>1. q \in Records /\ q.pc = "answered" /\ Tells(backend, q)
  BY DEF BackendsInv, BackendsTypeOK, Resend, CallsConsistent
<1>2. call' = [call EXCEPT ![c] = r] /\ UNCHANGED <<resends, register>>
  BY DEF Resend, BackendsInv, BackendsTypeOK, register, resends
<1>3. op' = [op EXCEPT ![c] = Abstracted(r)]
  <2>. HIDE DEF r
  <2>. QED BY <1>2, OneOperation
<1>4. Abstracted(r) = Abstracted(q)
  BY <1>1 DEF Abstracted, Records
<1>5. op' = op
  BY <1>3, <1>4 DEF op
<1>6. op[c].pc \in {"called", "done"}
  BY <1>1 DEF op, Abstracted
<1>7. CASE q.out
  <2>1. resends
    BY <1>1, <1>7 DEF Resend, Tells, resends
  <2>2. \/ LateWrites' = LateWrites
        \/ LateWrites' = LateWrites \cup Promise!Write(c)
    BY <1>1, LeftIsLate DEF Resend
  <2>. QED BY <1>2, <1>5, <1>6, <2>1, <2>2 DEF Promise!Resend, op, register, resends
<1>8. CASE ~q.out
  <2>1. LateWrites' = LateWrites
    BY <1>1, <1>8, LeftIsLate DEF Resend
  <2>. QED BY <1>2, <1>5, <2>1
<1>. QED BY <1>7, <1>8

\* A request that comes late is a late write, or creates a secret without one.
LEMMA LateMaps ==
  ASSUME BackendsInv, NEW q \in lost, ServiceDoesLate(q)
  PROVE  \/ \E w \in LateWrites : Promise!Late(w)
         \/ UNCHANGED <<resends, register, op, LateWrites>>
<1> DEFINE e == entry[q.name]
<1> DEFINE left == Leaves(q.request, e, q.value)
<1>1. q \in LateRequests /\ q.name \in Secret
  BY DEF BackendsInv, BackendsTypeOK, LateRequests
<1>2. e \in Datum \cup NoDatum
  BY <1>1 DEF BackendsInv, BackendsTypeOK
<1>3. UNCHANGED <<resends, op>>
  BY DEF ServiceDoesLate, resends, op
<1>4. register' = [register EXCEPT ![q.name] = Stored(left)]
  <2>1. entry' = [entry EXCEPT ![q.name] = left]
    BY DEF ServiceDoesLate
  <2>2. \A n \in Secret : entry'[n] = IF n = q.name THEN left ELSE entry[n]
    BY <2>1 DEF BackendsInv, BackendsTypeOK
  <2>3. register' = [n \in Secret |-> Stored(entry'[n])]
    BY DEF register
  <2>. HIDE DEF left
  <2>. QED BY <2>2, <2>3 DEF register
<1>5. register[q.name] = Stored(e)
  BY <1>1 DEF register
<1>6. CASE q.request = "create"
  <2>1. Stored(left) = Stored(e)
    BY <1>1, <1>2, <1>6, LateLeaves
  <2>2. register' = register
    BY <1>4, <1>5, <2>1 DEF register
  <2>3. LateWrites' = LateWrites
    BY <1>6 DEF ServiceDoesLate, LateWrites
  <2>. QED BY <1>3, <2>2, <2>3
<1>7. CASE q.request # "create"
  <2> DEFINE w == [name |-> q.name, value |-> q.value]
  <2>1. w \in LateWrites
    BY <1>7 DEF LateWrites
  <2>2. LateWrites' \subseteq LateWrites
    BY DEF ServiceDoesLate, LateWrites
  <2>3. Stored(left) \in {Stored(e), q.value}
    BY <1>1, <1>2, <1>7, LateLeaves
  <2>4. register' \in {register, [register EXCEPT ![w.name] = w.value]}
    BY <1>4, <1>5, <2>3 DEF register
  <2>5. Promise!Late(w)
    BY <1>3, <2>1, <2>2, <2>4 DEF Promise!Late, op, register, resends
  <2>. QED BY <2>1, <2>5
<1>. QED BY <1>6, <1>7

\* Nor is the second request of GCP's Set; if the first failed, the call returns.
LEMMA CreatedMaps ==
  ASSUME BackendsInv, NEW c \in Caller, GCPSetCreated(c)
  PROVE  \/ Promise!Succeed(c) \/ Promise!Fail(c)
         \/ UNCHANGED <<resends, register, op, LateWrites>>
<1> DEFINE q == call[c]
<1>1. q \in Records /\ q.pc = "answered" /\ ~q.took /\ q.op # "Get"
  BY DEF BackendsInv, BackendsTypeOK, GCPSetCreated, Answered, CallsConsistent,
         Tells, Fits
<1>2. CASE q.status \in {"ok", "exists"}
  <2> DEFINE r == [q EXCEPT !.pc = "sent", !.request = "add"]
  <2>1. /\ call' = [call EXCEPT ![c] = r]
        /\ UNCHANGED <<resends, register, LateWrites>>
    BY <1>2
    DEF GCPSetCreated, BackendsInv, BackendsTypeOK, register, resends, LateWrites
  <2>2. op' = [op EXCEPT ![c] = Abstracted(r)]
    <3>. HIDE DEF r
    <3>. QED BY <2>1, OneOperation
  <2>3. Abstracted(r) = Abstracted(q)
    BY <1>1 DEF Abstracted, Records
  <2>. QED BY <2>1, <2>2, <2>3 DEF op
<1>3. CASE q.status \notin {"ok", "exists"}
  <2>1. Returns(c, FALSE)
    BY <1>3 DEF GCPSetCreated
  <2>2. Promise!Succeed(c) \/ Promise!Fail(c)
    BY <1>1, <2>1, ReturnsMaps
  <2>. QED BY <2>2
<1>. QED BY <1>2, <1>3

\* Initially every register is empty.
LEMMA InitMaps == BackendsInit => Promise!Init
<1> SUFFICES ASSUME BackendsInit PROVE Promise!Init
  OBVIOUS
<1>1. register = [n \in Secret |-> NoValue]
  BY DatumAssumption DEF BackendsInit, register, Stored, NoDatum
<1>2. PICK n \in Secret : call = [c \in Caller |-> Idle(n)]
  BY DEF BackendsInit
<1>3. op \in [Caller -> [pc : {"idle"}, op : {"Get"}, name : Secret,
                        value : {NoValue}]]
  BY <1>2 DEF op, Abstracted, Idle
<1>4. LateWrites = {}
  BY DEF BackendsInit, LateWrites
<1>. QED BY <1>1, <1>3, <1>4 DEF Promise!Init, op, register

\* Every step of a backend is a step of the registers, or none that shows.
LEMMA StepMaps ==
  BackendsInv /\ [BackendsNext]_bvars
    => [Promise!Next]_<<resends, register, op, LateWrites>>
<1> SUFFICES ASSUME BackendsInv, [BackendsNext]_bvars
             PROVE  [Promise!Next]_<<resends, register, op, LateWrites>>
  OBVIOUS
<1>1. CASE UNCHANGED bvars
  BY <1>1 DEF bvars, register, op, resends, LateWrites
<1>2. ASSUME NEW n \in Secret, Foreign(n) PROVE UNCHANGED <<resends, register, op, LateWrites>>
  <2>1. \A m \in Secret : Stored(entry'[m]) = Stored(entry[m])
    BY <1>2, DatumAssumption
    DEF Foreign, Stored, NoDatum, BackendsInv, BackendsTypeOK
  <2>2. UNCHANGED <<backend, call, lost>>
    BY <1>2 DEF Foreign
  <2>. QED BY <2>1, <2>2 DEF register, op, resends, LateWrites
<1>3. ASSUME NEW c \in Caller, NEW o \in {"Get", "Set", "Delete"}, NEW n \in Secret,
             NEW v \in Datum \cup {NoValue}, CallBackend(c, o, n, v)
      PROVE  Promise!Next
  BY <1>3, CallMaps DEF Promise!Next
<1>4. ASSUME NEW c \in Caller,
             ServiceDoes(c) \/ ServiceFails(c) \/ Resend(c) \/ GCPSetCreated(c)
      PROVE  Promise!Next \/ UNCHANGED <<resends, register, op, LateWrites>>
  BY <1>4, DoesMaps, FailsMaps, ResendMaps, CreatedMaps DEF Promise!Next
<1>5. ASSUME NEW c \in Caller,
             \/ VaultGet(c) \/ VaultSet(c) \/ VaultDelete(c)
             \/ SSMGet(c) \/ SSMSet(c) \/ SSMDelete(c)
             \/ GCPGet(c) \/ GCPSetAdded(c) \/ GCPDelete(c)
      PROVE  Promise!Next
  BY <1>5, Reported, ReturnsMaps DEF Promise!Next
<1>6. ASSUME NEW q \in lost, ServiceDoesLate(q)
      PROVE  Promise!Next \/ UNCHANGED <<resends, register, op, LateWrites>>
  BY <1>6, LateMaps DEF Promise!Next
<1>. QED BY <1>1, <1>2, <1>3, <1>4, <1>5, <1>6 DEF BackendsNext

\* BackendsKeepPromise: for any number of callers, names and values, the three
\* backends implement the registers of SecretStore, however often the client of
\* the parameter store sends a request again and whatever comes late
\* (backend.go:7-11, vault.go:38-112, gcp.go:32-81, awsssm.go:20-63).
THEOREM BackendsKeepPromise == BackendsSpec => BackendsImplement
<1>1. BackendsInit => BackendsInv
  BY InvInitially
<1>2. BackendsInv /\ [BackendsNext]_bvars => BackendsInv'
  BY InvKept
<1>3. BackendsInit => Promise!Init
  BY InitMaps
<1>4. BackendsInv /\ [BackendsNext]_bvars
        => [Promise!Next]_<<(backend = "ssm"),
                            [n \in Secret |-> Stored(entry[n])],
                            [c \in Caller |-> Abstracted(call[c])], LateWrites>>
  BY StepMaps DEF register, op, resends
<1>. QED BY <1>1, <1>2, <1>3, <1>4, PTL
  DEF BackendsSpec, BackendsImplement, Promise!Spec

-----------------------------------------------------------------------------
(* Secrets: the inductive invariant *)

SecretRow == [key : MasterKey, value : Value]

SecretsTypeOK ==
    /\ \A n \in DOMAIN table : n \in Name /\ table[n] \in SecretRow
    /\ master \in MasterKey
    /\ inject \in {"idle", "get", "failed", "ready"}
    /\ env \in Seq(EnvVar) /\ held \subseteq EnvVar

\* What has been injected are the first secrets of the job, with values that
\* could be read; what can be read now is known to the call that reads.
InjectInv ==
    /\ Len(env) <= Len(JobSecrets)
    /\ \A i \in 1..Len(env) : env[i].key = JobSecrets[i] /\ env[i] \in held
    /\ inject = "idle" => env = << >>
    /\ inject = "get" => Len(env) < Len(JobSecrets) /\ HeldNow \subseteq held
    /\ inject = "ready" => Len(env) = Len(JobSecrets)
    /\ cmdEnv # << >> => inject = "ready" /\ cmdEnv = env \o Unseen(env)

SecretsInv == SecretsTypeOK /\ InjectInv

-----------------------------------------------------------------------------
(* Secrets: the environment of a command *)

\* The positions in a finite set of numbers, counted from its least, are those
\* from 1 to its size: each has one member.
LEMMA Enumerated ==
    ASSUME NEW S \in SUBSET Nat, IsFiniteSet(S), NEW k \in 1..Cardinality(S)
    PROVE  \E i \in S : Cardinality({j \in S : j <= i}) = k
<1> DEFINE upTo(i) == {j \in S : j <= i}
           T == 1..Cardinality(S)
           f == [i \in S |-> Cardinality(upTo(i))]
<1>1. Cardinality(S) \in Nat
  BY FS_CardinalityType
<1>2. IsFiniteSet(T) /\ Cardinality(T) = Cardinality(S)
  BY <1>1, FS_Interval
<1>3. ASSUME NEW i \in S
      PROVE  IsFiniteSet(upTo(i)) /\ f[i] \in T
  <2>1. /\ IsFiniteSet(upTo(i))
        /\ Cardinality(upTo(i)) <= Cardinality(S)
    BY FS_Subset
  <2>2. Cardinality(upTo(i)) # 0
    BY <2>1, FS_EmptySet
  <2>3. Cardinality(upTo(i)) \in Nat
    BY <2>1, FS_CardinalityType
  <2> QED
    BY <1>1, <2>1, <2>2, <2>3
<1>4. ASSUME NEW a \in S, NEW b \in S, a < b
      PROVE  f[a] # f[b]
  <2>1. upTo(a) \in SUBSET upTo(b) /\ upTo(a) # upTo(b)
    <3>1. b \in upTo(b) /\ b \notin upTo(a)
      BY <1>4
    <3>2. \A j \in S : j \in Nat
      OBVIOUS
    <3>3. \A j \in S : j <= a => j <= b
      BY <1>4, <3>2
    <3> QED
      BY <3>1, <3>3
  <2> QED
    BY <1>3, <2>1, FS_Subset
<1>5. f \in Injection(S, T)
  <2>1. f \in [S -> T]
    BY <1>3
  <2>2. ASSUME NEW a \in S, NEW b \in S, f[a] = f[b]
        PROVE  a = b
    <3>1. a \in Nat /\ b \in Nat
      OBVIOUS
    <3>2. ~(a < b) /\ ~(b < a)
      BY <1>4, <2>2
    <3> QED
      BY <3>1, <3>2
  <2> QED
    BY <2>1, <2>2 DEF Injection, IsInjective
<1>6. f \in Surjection(S, T)
  BY <1>2, <1>5, FS_Injection
<1>7. PICK i \in S : f[i] = k
  BY <1>6 DEF Surjection
<1> QED
  BY <1>7

\* The variables of the spec that are appended have names of their own.
LEMMA UnseenKeys ==
    ASSUME NEW vs \in Seq(EnvVar)
    PROVE  /\ Unseen(vs) \in Seq(EnvVar)
           /\ \A k \in 1..Len(Unseen(vs)) : Unseen(vs)[k].key \notin Keys(vs)
<1> DEFINE new == {i \in 1..Len(SpecEnv) :
                     SpecEnv[i].key \notin Keys(vs) \cup Keys(SubSeq(SpecEnv, 1, i - 1))}
           nth(k) == CHOOSE i \in new : Cardinality({j \in new : j <= i}) = k
<1>1. IsFiniteSet(new) /\ new \in SUBSET Nat
  <2>1. Len(SpecEnv) \in Nat
    BY SpecEnvAssumption
  <2>2. IsFiniteSet(1..Len(SpecEnv))
    BY <2>1, FS_Interval
  <2>3. new \in SUBSET (1..Len(SpecEnv))
    OBVIOUS
  <2> QED
    BY <2>1, <2>2, <2>3, FS_Subset
<1>2. Cardinality(new) \in Nat
  BY <1>1, FS_CardinalityType
<1>3. ASSUME NEW k \in 1..Cardinality(new)
      PROVE  nth(k) \in new
  BY <1>1, Enumerated
<1>4. Unseen(vs) = [k \in 1..Cardinality(new) |-> SpecEnv[nth(k)]]
  BY DEF Unseen
<1>5. \A i \in new : SpecEnv[i] \in EnvVar /\ SpecEnv[i].key \notin Keys(vs)
  BY SpecEnvAssumption
<1> HIDE DEF new, nth
<1>6. Unseen(vs) \in Seq(EnvVar) /\ Len(Unseen(vs)) = Cardinality(new)
  <2>1. \A k \in 1..Cardinality(new) : SpecEnv[nth(k)] \in EnvVar
    BY <1>3, <1>5
  <2> QED
    BY <1>2, <1>4, <2>1, IsASeq
<1> QED
  BY <1>3, <1>4, <1>5, <1>6

\* The last of several positions with one name.
LEMMA LastOf ==
    ASSUME NEW vs \in Seq(EnvVar), NEW n, \E i \in 1..Len(vs) : vs[i].key = n
    PROVE  \E i \in 1..Len(vs) : vs[i].key = n
             /\ \A k \in 1..Len(vs) : k > i => vs[k].key # n
<1> DEFINE S == {i \in 1..Len(vs) : vs[i].key = n}
<1>1. S \in SUBSET Nat /\ S # {} /\ Len(vs) \in Nat /\ \A i \in S : i <= Len(vs)
  OBVIOUS
<1>2. Max(S) \in S /\ \A i \in S : i <= Max(S)
  BY <1>1, GreatestOf
<1> QED
  BY <1>1, <1>2

\* What is the last in the environment of its name among the injected is the
\* value a command sees.
LEMMA SecretEffective ==
    ASSUME NEW vs \in Seq(EnvVar), NEW n, \E i \in 1..Len(vs) : vs[i].key = n
    PROVE  \E i \in 1..Len(vs) :
             vs[i].key = n /\ vs[i].value \in Effective(vs \o Unseen(vs), n)
<1> DEFINE us == Unseen(vs)
           all == vs \o us
<1>1. /\ us \in Seq(EnvVar)
      /\ \A k \in 1..Len(us) : us[k].key \notin Keys(vs)
  BY UnseenKeys
<1>2. PICK i \in 1..Len(vs) :
        /\ vs[i].key = n
        /\ \A k \in 1..Len(vs) : k > i => vs[k].key # n
  BY LastOf
<1> HIDE DEF us
<1>3. /\ all \in Seq(EnvVar) /\ Len(all) = Len(vs) + Len(us)
      /\ \A k \in 1..Len(all) : all[k] = IF k <= Len(vs) THEN vs[k] ELSE us[k - Len(vs)]
  BY <1>1
<1> HIDE DEF all
<1>4. ASSUME NEW k \in 1..Len(all), k > i
      PROVE  all[k].key # n
  <2>1. CASE k <= Len(vs)
    BY <1>2, <1>3, <1>4, <2>1
  <2>2. CASE k > Len(vs)
    <3>1. k - Len(vs) \in 1..Len(us) /\ all[k] = us[k - Len(vs)]
      BY <1>1, <1>3, <2>2
    <3>2. n \in Keys(vs)
      BY <1>2 DEF Keys
    <3> QED
      BY <1>1, <3>1, <3>2
  <2> QED
    BY <2>1, <2>2
<1>5. n \notin Keys(SubSeq(all, i + 1, Len(all)))
  <2> DEFINE rest == SubSeq(all, i + 1, Len(all))
  <2>1. ASSUME NEW m \in 1..Len(rest)
        PROVE  rest[m] = all[i + m] /\ i + m \in 1..Len(all) /\ i + m > i
    BY <1>3
  <2> HIDE DEF rest
  <2> QED
    BY <1>4, <2>1 DEF Keys, rest
<1>6. i \in 1..Len(all) /\ all[i] = vs[i]
  BY <1>1, <1>3
<1>7. vs[i].value \in Effective(all, n)
  BY <1>2, <1>5, <1>6 DEF Effective
<1> QED
  BY <1>2, <1>7 DEF all, us

-----------------------------------------------------------------------------
(* Secrets: the invariant is inductive *)

\* Nothing is injected or readable in the beginning.
LEMMA SecretsInvInit == SecretsInit => SecretsInv
BY DEF SecretsInit, SecretsInv, SecretsTypeOK, InjectInv

\* A read that succeeds returns a variable that is known to be readable.
LEMMA ReadableType ==
    ASSUME SecretsTypeOK, NEW n, NEW v \in Readable(n)
    PROVE  [key |-> n, value |-> v] \in HeldNow
BY DEF SecretsTypeOK, Readable, decrypt, SecretRow, HeldNow, EnvVar

\* A change of the table is seen by the call that is reading.
LEMMA TableStep ==
    ASSUME SecretsInv, SecretsTypeOK', Observed,
           UNCHANGED <<master, inject, env, cmdEnv>>
    PROVE  InjectInv'
<1>1. held \subseteq held' /\ (inject = "get" => HeldNow' \subseteq held')
  BY DEF Observed
<1> QED
  BY <1>1 DEF SecretsInv, InjectInv

\* No step breaks it.
LEMMA SecretsInvStep == SecretsInv /\ [SecretsNext]_svars => SecretsInv'
<1> SUFFICES ASSUME SecretsInv, [SecretsNext]_svars
             PROVE  SecretsInv'
  OBVIOUS
<1>t. SecretsTypeOK
  BY DEF SecretsInv
<1>1. ASSUME NEW n \in Name, DeleteSecret(n)
      PROVE  SecretsInv'
  <2>1. SecretsTypeOK'
    BY <1>t, <1>1 DEF DeleteSecret, SecretsTypeOK, Observed, HeldNow
  <2> QED
    BY <1>1, <2>1, TableStep DEF DeleteSecret, SecretsInv
<1>2. ASSUME NEW n \in Name, NEW v \in Value, Set(n, v)
      PROVE  SecretsInv'
  <2>1. SecretsTypeOK'
    BY <1>t, <1>2 DEF Set, SecretsTypeOK, Observed, HeldNow, SecretRow
  <2> QED
    BY <1>2, <2>1, TableStep DEF Set, SecretsInv
<1>3. CASE Restart
  BY <1>t, <1>3, JobSecretsAssumption
     DEF Restart, SecretsInv, SecretsTypeOK, InjectInv
<1>4. CASE InjectSecrets
  BY <1>t, <1>4, JobSecretsAssumption
     DEF InjectSecrets, SecretsInv, SecretsTypeOK, InjectInv, HeldNow, Readable, decrypt
<1>5. CASE Get
  <2> DEFINE n == JobSecrets[Len(env) + 1]
  <2>1. CASE inject' = "failed" /\ UNCHANGED env
    BY <1>t, <1>5, <2>1, JobSecretsAssumption
       DEF Get, SecretsInv, SecretsTypeOK, InjectInv
  <2>2. ASSUME NEW v \in Readable(n), env' = Append(env, [key |-> n, value |-> v]),
               inject' = IF Len(env') = Len(JobSecrets) THEN "ready" ELSE "get"
        PROVE  SecretsInv'
    <3>1. /\ inject = "get" /\ Len(env) < Len(JobSecrets)
          /\ UNCHANGED <<table, master, cmdEnv, held>> /\ cmdEnv = << >>
      BY <1>5 DEF Get, SecretsInv, InjectInv
    <3>2. [key |-> n, value |-> v] \in held /\ held \subseteq EnvVar
      BY <1>t, <2>2, <3>1, ReadableType DEF SecretsInv, InjectInv, SecretsTypeOK
    <3>3. env \in Seq(EnvVar) /\ Len(JobSecrets) \in Nat
      BY <1>t, JobSecretsAssumption DEF SecretsTypeOK
    <3>4. /\ env' \in Seq(EnvVar) /\ Len(env') = Len(env) + 1
          /\ \A i \in 1..Len(env) : env'[i] = env[i]
          /\ env'[Len(env) + 1] = [key |-> n, value |-> v]
      BY <2>2, <3>2, <3>3
    <3>5. HeldNow' = HeldNow
      BY <3>1 DEF HeldNow, Readable, decrypt
    <3>6. ASSUME NEW i \in 1..Len(env')
          PROVE  env'[i].key = JobSecrets[i] /\ env'[i] \in held
      <4>1. CASE i = Len(env) + 1
        BY <3>2, <3>4, <4>1
      <4>2. CASE i # Len(env) + 1
        BY <3>3, <3>4, <4>2 DEF SecretsInv, InjectInv
      <4> QED
        BY <4>1, <4>2
    <3>7. SecretsTypeOK'
      BY <1>t, <2>2, <3>1, <3>4 DEF SecretsTypeOK
    <3>8. InjectInv'
      BY <2>2, <3>1, <3>3, <3>4, <3>5, <3>6 DEF SecretsInv, InjectInv
    <3> QED
      BY <3>7, <3>8 DEF SecretsInv
  <2> QED
    BY <1>5, <2>1, <2>2 DEF Get
<1>6. CASE buildEnv
  <2>1. HeldNow' = HeldNow
    BY <1>6 DEF buildEnv, HeldNow, Readable, decrypt
  <2> QED
    BY <1>t, <1>6, <2>1 DEF buildEnv, SecretsInv, SecretsTypeOK, InjectInv
<1>7. CASE UNCHANGED svars
  BY <1>t, <1>7 DEF svars, SecretsInv, SecretsTypeOK, InjectInv, HeldNow, Readable,
     decrypt
<1> QED
  BY <1>1, <1>2, <1>3, <1>4, <1>5, <1>6, <1>7 DEF SecretsNext

\* SecretsTypeCorrect: what is injected and what was readable fit together, for
\* any secrets, keys and values, and however the table changes in between.
THEOREM SecretsTypeCorrect == SecretsSpec => []SecretsInv
<1> QED
  BY SecretsInvInit, SecretsInvStep, PTL DEF SecretsSpec

\* SecretsReachCommand: for any list of secrets, with repetitions, and any
\* variables of the spec, a command that is started has each secret with a value
\* that could be read during the injection (inject.go:18-25, executor.go:103-115).
THEOREM SecretsReachCommand == SecretsSpec => []SecretsReach
<1>1. ASSUME SecretsInv
      PROVE  SecretsReach
  <2> SUFFICES ASSUME cmdEnv # << >>, NEW n \in ToSet(JobSecrets)
               PROVE  \E v \in Effective(cmdEnv, n) : [key |-> n, value |-> v] \in held
    BY DEF SecretsReach
  <2>1. /\ env \in Seq(EnvVar) /\ Len(env) = Len(JobSecrets)
        /\ cmdEnv = env \o Unseen(env)
        /\ \A i \in 1..Len(env) : env[i].key = JobSecrets[i] /\ env[i] \in held
        /\ held \subseteq EnvVar
    BY <1>1 DEF SecretsInv, SecretsTypeOK, InjectInv
  <2>2. \E i \in 1..Len(env) : env[i].key = n
    BY <2>1, JobSecretsAssumption DEF ToSet
  <2>3. PICK i \in 1..Len(env) :
          env[i].key = n /\ env[i].value \in Effective(cmdEnv, n)
    BY <2>1, <2>2, SecretEffective
  <2>4. env[i] = [key |-> n, value |-> env[i].value]
    BY <2>1, <2>3 DEF EnvVar
  <2> QED
    BY <2>1, <2>3, <2>4
<1> QED
  BY <1>1, SecretsTypeCorrect, PTL
=============================================================================
