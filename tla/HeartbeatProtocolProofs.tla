----------------------- MODULE HeartbeatProtocolProofs -----------------------
(***************************************************************************)
(* Proofs about the rotation of session tokens (module HeartbeatProtocol), *)
(* for any number of threads, challenges and messages and any clocks.      *)
(*                                                                         *)
(* ChainInv says what every message on its way may still do to the         *)
(* session; from it follow that client and server are in step, that a      *)
(* token is sent with one challenge only, and that rotation is a           *)
(* TokenChain.                                                             *)
(***************************************************************************)
EXTENDS HeartbeatProtocol, TLAPS

Told(r) == r.http.body.payload

Shaped(http) ==
  /\ DOMAIN http = {"status", "protocol", "signed", "kid", "body"}
  /\ DOMAIN http.body = {"form", "signer", "payload"}

TypeInv ==
  /\ challenges \in Nat /\ newest \in Nat /\ token \in Nat \cup {None}
  /\ alive \in BOOLEAN /\ lock \in Beaters \cup {Nobody}
  /\ pc \in [Beaters -> {"idle", "init", "beat"}]
  /\ challenge \in [Beaters -> Nat] /\ attempt \in [Beaters -> Nat]
  /\ \A b \in Beaters : challenge[b] <= challenges
  /\ \A b \in Beaters : pc[b] = "beat" <=> lock = b

\* Everything on its way belongs to a challenge that was drawn.
MessageInv ==
  /\ \A m \in requests :
       /\ m.conn.challenge \in Nat /\ m.conn.challenge <= challenges
       /\ m.kind = "beat" => m.token \in Nat
  /\ \A r \in replies :
       /\ Told(r).challenge \in Nat /\ Told(r).challenge <= challenges
       /\ Told(r).token \in Nat \cup {None}
       /\ Shaped(r.http)
  /\ cache # None =>
       /\ cache.challenge \in Nat /\ cache.challenge <= challenges
       /\ cache.token = newest

\* Before the session, and that there is only one initialization.
BeginInv ==
  /\ challenges = 0 => token = None /\ \A b \in Beaters : pc[b] = "idle"
  /\ \A b, c \in Beaters : pc[b] = "init" /\ pc[c] = "init" => b = c
  /\ \A b \in Beaters : pc[b] = "init" => token = None
  /\ token = None =>
       /\ ~alive /\ lock = Nobody /\ newest \in {0, 1}
       /\ \A m \in requests : m.kind = "init"
       /\ \A r \in replies : Told(r).token # None => Told(r).token = 1 /\ newest = 1
  /\ token # None => newest > 0

\* While the session is alive: the server is at most one token ahead, and it is
\* ahead because of the latest challenge wherever that challenge was answered.
SessionInv ==
  alive =>
    /\ token \in Nat
    /\ newest \in {token, token + 1}
    /\ \A m \in requests : m.kind = "beat" => m.token <= token
    /\ \A b \in Beaters : lock = b => challenge[b] = challenges
    /\ lock # Nobody =>
         /\ \A r \in replies : Told(r).code = "OK" /\ Told(r).challenge = challenges
              => Told(r).token = newest /\ newest = token + 1
         /\ cache # None /\ cache.challenge = challenges => newest = token + 1
    /\ lock = Nobody /\ ~escaped =>
         /\ newest = token
         /\ \A m \in requests : m.kind = "beat" => m.token < token

ChainInv == TypeInv /\ MessageInv /\ BeginInv /\ SessionInv

-----------------------------------------------------------------------------
(* What the actions read and write, as the proofs need it.                 *)

\* Whatever arrives under the pinned key, genuine or damaged, has the payload of some
\* response, and damage signs nothing.
LEMMA ArrivingWasTold ==
  ASSUME NEW b \in Beaters, \A r \in replies : Shaped(r.http),
         NEW http \in Arriving(b), http.body.signer = Config.key
  PROVE  \E r \in replies :
           /\ http.body.payload = Told(r)
           /\ http.body.form = "signed" => r.http.body.form = "signed"
           /\ r.http.body.signer = Config.key
<1>1. ASSUME NEW h, Shaped(h), NEW d \in Damaged(h), d.body.signer = Config.key
      PROVE  /\ d.body.payload = h.body.payload
             /\ d.body.form = "signed" => h.body.form = "signed"
             /\ h.body.signer = Config.key
  <2>1. CASE d = [h EXCEPT !.status = 502]
    BY <1>1, <2>1 DEF Shaped
  <2>2. CASE d = [h EXCEPT !.protocol = FALSE]
    BY <1>1, <2>2 DEF Shaped
  <2>3. CASE d = [h EXCEPT !.kid = None]
    BY <1>1, <2>3 DEF Shaped
  <2>4. CASE d = [h EXCEPT !.body.form = "garbled"]
    BY <1>1, <2>4 DEF Shaped
  <2>5. CASE d = [h EXCEPT !.body.signer = OtherKey, !.body.payload.token = newest + 1]
    BY <1>1, <2>5, SessionAssumption DEF Shaped
  <2>6. CASE d = [h EXCEPT !.signed = "false", !.body.form = "undecodable"]
    BY <1>1, <2>6 DEF Shaped
  <2>. QED
    BY <1>1, <2>1, <2>2, <2>3, <2>4, <2>5, <2>6 DEF Damaged
<1>2. PICK r \in replies : http = r.http \/ http \in Damaged(r.http)
  BY DEF Arriving
<1>. QED
  BY <1>1, <1>2 DEF Told

\* A response that rotates the token tells OK, and the challenge of the request,
\* and its body is signed with the pinned key.
LEMMA RotatingAnswer ==
  ASSUME NEW http, NEW c, Rotates(http, c)
  PROVE  /\ http.body.payload.code = "OK" /\ http.body.payload.challenge = c
         /\ http.body.payload.token # None
         /\ http.body.form = "signed" /\ http.body.signer = Config.key
<1>1. Judge(http, c) = "verified"
  BY DEF Rotates
<1>2. Answers(Config, http.body.payload, c)
  BY <1>1 DEF Judge, VerifySigned, ParseUnsigned, ParsePayload, Escaped
<1>3. VerifySigned(Config, http, c, ClientNow) = "verified"
  BY <1>1 DEF Rotates, Judge, ParseUnsigned, Escaped
<1>4. http.body.form = "signed" /\ http.body.signer = Config.key
  BY <1>3 DEF VerifySigned
<1>. QED
  BY <1>2, <1>4 DEF Rotates, Answers

\* What a step of the server adds to the responses.
Answered(m, r) ==
  replies' = replies \cup {r} /\ Told(r).challenge = m.conn.challenge /\ Shaped(r.http)

\* A response tells the challenge of its request and what was put in it.
LEMMA Answers1 ==
  ASSUME NEW m, NEW code, NEW t, NEW time, NEW http,
         http \in {Signed(Payload(code, t, m.conn.challenge, time)),
                   Unsigned(Payload(code, t, m.conn.challenge, time))},
         Reply(m, http)
  PROVE  \E r : Answered(m, r) /\ Told(r).token = t /\ Told(r).code = code
<1> DEFINE p == Payload(code, t, m.conn.challenge, time)
           r == [conn |-> m.conn, http |-> http]
<1>1. p.challenge = m.conn.challenge /\ p.token = t /\ p.code = code
  BY DEF Payload
<1> HIDE DEF p
<1>2. http.body.payload = p /\ Shaped(http)
  BY DEF Signed, Unsigned, Shaped, p
<1>3. Told(r) = p /\ r.http = http /\ replies' = replies \cup {r}
  BY <1>2 DEF Told, Reply
<1>. QED
  BY <1>1, <1>2, <1>3 DEF Answered

\* Issuing tells the new token.
LEMMA IssuedReply ==
  ASSUME NEW m \in requests, ServerIssues(m)
  PROVE  \E r : Answered(m, r) /\ Told(r).token = newest'
  BY Answers1 DEF ServerIssues

\* Repeating tells the cached token.
LEMMA RepeatedReply ==
  ASSUME NEW m \in requests, ServerRepeats(m)
  PROVE  \E r : Answered(m, r) /\ Told(r).token = cache.token
  BY Answers1 DEF ServerRepeats

\* A denial tells no token.
LEMMA DeniedReply ==
  ASSUME NEW m \in requests, ServerDenies(m)
  PROVE  \E r : Answered(m, r) /\ Told(r).token = None /\ Told(r).code # "OK"
  BY Answers1 DEF ServerDenies

\* Ending a session tells OUTDATED with a token, or no token.
LEMMA EndingReply ==
  ASSUME NEW m \in requests, ServerEnds(m)
  PROVE  \E r : /\ Answered(m, r) /\ Told(r).code # "OK"
                /\ Told(r).token = None \/ (Told(r).token = newest + 1 /\ m.kind = "beat")
<1>1. PICK code \in {"SESSION_TERMINATED", "SIGNING_KEY_REVOKED"}
                    \cup (IF m.kind = "beat" THEN {"OUTDATED"} ELSE {}) :
        LET t == IF code = "OUTDATED" THEN newest + 1 ELSE None
            payload == Payload(code, t, m.conn.challenge, Seconds(now))
        IN Reply(m, IF code = "SIGNING_KEY_REVOKED" THEN Unsigned(payload) ELSE Signed(payload))
  BY DEF ServerEnds
<1>2. CASE code = "OUTDATED"
  BY <1>1, <1>2, Answers1
<1>3. CASE code # "OUTDATED"
  BY <1>1, <1>3, Answers1
<1>. QED
  BY <1>2, <1>3

-----------------------------------------------------------------------------
(* The invariant holds at first, and every action keeps it.                *)

LEMMA ChainInit == ASSUME Init PROVE ChainInv
<1> USE DEF Init
<1>1. TypeInv
  <2>1. \A b \in Beaters : pc[b] # "beat" /\ lock # b /\ challenge[b] = 0
    BY SessionAssumption
  <2>2. /\ pc \in [Beaters -> {"idle", "init", "beat"}]
        /\ challenge \in [Beaters -> Nat] /\ attempt \in [Beaters -> Nat]
    OBVIOUS
  <2>3. challenges = 0 /\ newest = 0 /\ token = None /\ alive = FALSE /\ lock = Nobody
    OBVIOUS
  <2> HIDE DEF Init
  <2>4. \A b \in Beaters : challenge[b] <= challenges /\ (pc[b] = "beat" <=> lock = b)
    BY <2>1, <2>3
  <2>5. alive \in BOOLEAN /\ lock \in Beaters \cup {Nobody} /\ token \in Nat \cup {None}
    BY <2>3
  <2>6. challenges \in Nat /\ newest \in Nat
    BY <2>3
  <2>. QED
    BY <2>2, <2>4, <2>5, <2>6 DEF TypeInv
<1>2. MessageInv
  BY DEF MessageInv
<1>3. BeginInv
  BY DEF BeginInv
<1>4. SessionInv
  BY DEF SessionInv
<1>. QED
  BY <1>1, <1>2, <1>3, <1>4 DEF ChainInv

LEMMA InitAskKeeps ==
  ASSUME ChainInv, NEW b \in Beaters, InitAsk(b) PROVE ChainInv'
<1> USE DEF ChainInv, InitAsk, Ask, sessionVars, serverVars
<1>1. TypeInv'
  BY DEF TypeInv
<1>2. MessageInv'
  BY DEF TypeInv, MessageInv, Request
<1>3. BeginInv'
  BY DEF TypeInv, BeginInv, Request
<1>4. SessionInv'
  BY DEF TypeInv, BeginInv, SessionInv, Request
<1>. QED
  BY <1>1, <1>2, <1>3, <1>4

LEMMA InitFailsKeeps ==
  ASSUME ChainInv, NEW b \in Beaters, InitFails(b) PROVE ChainInv'
<1> USE DEF ChainInv, InitFails, HangsUp, sessionVars, networkVars, serverVars, historyVars
<1>1. TypeInv'
  BY SessionAssumption DEF TypeInv
<1>2. MessageInv'
  BY DEF MessageInv
<1>3. BeginInv'
  BY DEF TypeInv, BeginInv
<1>4. SessionInv'
  BY DEF TypeInv, BeginInv, SessionInv
<1>. QED
  BY <1>1, <1>2, <1>3, <1>4

\* The only token an initialization can bring is the first, and the server has
\* issued it.
LEMMA AcceptedToken ==
  ASSUME ChainInv, NEW b \in Beaters, InitAccepted(b)
  PROVE  token = None /\ token' = 1 /\ newest = 1
<1> USE DEF ChainInv, InitAccepted
<1>1. PICK http \in Arriving(b) : Authenticates(http, challenge[b]) /\ token' = http.body.payload.token
  OBVIOUS
<1>2. http.body.payload.token = 1
  BY <1>1 DEF Authenticates, IsInitToken
<1>3. http.body.signer = Config.key
  BY <1>1 DEF Authenticates, VerifySigned
<1>4. \E r \in replies : http.body.payload = Told(r)
  BY <1>3, ArrivingWasTold DEF MessageInv
<1>. QED
  BY <1>1, <1>2, <1>4, SessionAssumption DEF BeginInv

LEMMA InitAcceptedKeeps ==
  ASSUME ChainInv, NEW b \in Beaters, InitAccepted(b) PROVE ChainInv'
<1> USE DEF ChainInv, InitAccepted, HangsUp, networkVars, serverVars, historyVars
<1>1. token = None /\ token' = 1 /\ newest = 1
  BY AcceptedToken
<1>2. TypeInv'
  BY <1>1, SessionAssumption DEF TypeInv
<1>3. MessageInv'
  BY DEF MessageInv
<1>4. BeginInv'
  BY <1>1, SessionAssumption DEF TypeInv, BeginInv
<1>5. SessionInv'
  BY <1>1, SessionAssumption DEF TypeInv, BeginInv, SessionInv
<1>. QED
  BY <1>2, <1>3, <1>4, <1>5

LEMMA BeatAskKeeps ==
  ASSUME ChainInv, NEW b \in Beaters, BeatAsk(b) PROVE ChainInv'
<1> USE DEF ChainInv, BeatAsk, Ask, Acquire, serverVars
<1>1. TypeInv'
  BY SessionAssumption DEF TypeInv
<1>2. MessageInv'
  BY DEF TypeInv, MessageInv, SessionInv, Request
<1>3. BeginInv'
  BY DEF TypeInv, BeginInv
<1>4. SessionInv'
  BY DEF TypeInv, MessageInv, SessionInv, Request
<1>. QED
  BY <1>1, <1>2, <1>3, <1>4

LEMMA RetryKeeps ==
  ASSUME ChainInv, NEW b \in Beaters, Retry(b) PROVE ChainInv'
<1> USE DEF ChainInv, Retry, sessionVars, serverVars, historyVars
<1>1. TypeInv'
  BY DEF TypeInv
<1>2. token # None
  BY SessionAssumption DEF TypeInv, BeginInv
<1>3. MessageInv'
  BY <1>2 DEF TypeInv, MessageInv, Request
<1>4. BeginInv'
  BY <1>2 DEF TypeInv, BeginInv
<1>5. SessionInv'
  BY SessionAssumption DEF TypeInv, SessionInv, Request
<1>. QED
  BY <1>1, <1>3, <1>4, <1>5

\* A thread that holds the lock has a session, and loses no part of the
\* invariant by giving up.
LEMMA EndingKeeps ==
  ASSUME ChainInv, NEW b \in Beaters, pc[b] = "beat", Release(b), HangsUp(b),
         UNCHANGED <<token, networkVars, serverVars, challenges>>,
         alive' = FALSE \/ (alive' = alive /\ escaped' = TRUE)
  PROVE  ChainInv'
<1> USE DEF ChainInv, Release, HangsUp, networkVars, serverVars
<1>1. TypeInv'
  <2>1. alive' \in BOOLEAN /\ lock' \in Beaters \cup {Nobody}
    BY DEF TypeInv
  <2>2. /\ pc' \in [Beaters -> {"idle", "init", "beat"}]
        /\ challenge' \in [Beaters -> Nat] /\ attempt' \in [Beaters -> Nat]
    BY DEF TypeInv
  <2>3. \A c \in Beaters : challenge'[c] <= challenges'
    BY DEF TypeInv
  <2>4. \A c \in Beaters : pc'[c] = "beat" <=> lock' = c
    BY SessionAssumption DEF TypeInv
  <2>. QED
    BY <2>1, <2>2, <2>3, <2>4 DEF TypeInv
<1>2. MessageInv'
  BY DEF MessageInv
<1>3. BeginInv'
  BY SessionAssumption DEF TypeInv, BeginInv
<1>4. SessionInv'
  BY SessionAssumption DEF TypeInv, SessionInv
<1>. QED
  BY <1>1, <1>2, <1>3, <1>4

\* The token of an accepted heartbeat is the newest, one ahead of the client's.
LEMMA RotatedToken ==
  ASSUME ChainInv, NEW b \in Beaters, BeatAccepted(b)
  PROVE  /\ lock = b /\ token # None /\ token' \in Nat
         /\ alive => token' = newest /\ newest = token + 1
<1> USE DEF ChainInv, BeatAccepted
<1>1. lock = b /\ token # None
  BY SessionAssumption DEF TypeInv, BeginInv
<1>2. PICK r \in replies : /\ Told(r).code = "OK" /\ Told(r).challenge = challenge[b]
                           /\ Told(r).token # None /\ token' = Told(r).token
  <2>1. PICK http \in Arriving(b) : Rotates(http, challenge[b]) /\ token' = http.body.payload.token
    OBVIOUS
  <2>2. /\ http.body.payload.code = "OK" /\ http.body.payload.challenge = challenge[b]
        /\ http.body.payload.token # None /\ http.body.signer = Config.key
    BY <2>1, RotatingAnswer
  <2>3. \E r \in replies : http.body.payload = Told(r)
    BY <2>2, ArrivingWasTold DEF MessageInv
  <2>. QED
    BY <2>1, <2>2, <2>3
<1>3. token' \in Nat
  BY <1>2 DEF MessageInv
<1>4. alive => token' = newest /\ newest = token + 1
  BY <1>1, <1>2, SessionAssumption DEF SessionInv
<1>. QED
  BY <1>1, <1>3, <1>4

LEMMA BeatAcceptedKeeps ==
  ASSUME ChainInv, NEW b \in Beaters, BeatAccepted(b) PROVE ChainInv'
<1> USE DEF ChainInv, BeatAccepted, Release, HangsUp, networkVars, serverVars, historyVars
<1>1. /\ lock = b /\ token # None /\ token' \in Nat
      /\ alive => token' = newest /\ newest = token + 1
  BY RotatedToken
<1>2. TypeInv'
  BY <1>1, SessionAssumption DEF TypeInv
<1>3. MessageInv'
  BY DEF MessageInv
<1>4. BeginInv'
  BY <1>1, SessionAssumption DEF TypeInv, BeginInv
<1>5. SessionInv'
  BY <1>1, SessionAssumption DEF TypeInv, MessageInv, SessionInv
<1>. QED
  BY <1>2, <1>3, <1>4, <1>5

LEMMA StopKeeps ==
  ASSUME ChainInv, Stop PROVE ChainInv'
BY DEF ChainInv, Stop, Fail, TypeInv, MessageInv, BeginInv, SessionInv,
       threadVars, networkVars, serverVars

\* What every step of the server leaves alone.
Served(m) ==
  /\ requests' = requests \ {m}
  /\ UNCHANGED <<alive, token, lock, pc, attempt, challenge, challenges, escaped>>

\* The server issues a token: it held the client's, and the lock is taken.
LEMMA IssueKeeps ==
  ASSUME ChainInv, NEW m \in requests, Served(m), ServerIssues(m) PROVE ChainInv'
<1> USE DEF ChainInv, Served
<1>1. /\ newest' = newest + 1
      /\ cache'.challenge = m.conn.challenge /\ cache'.token = newest'
      /\ Issues(m)
  BY DEF ServerIssues
<1>2. PICK r : Answered(m, r) /\ Told(r).token = newest'
  BY IssuedReply
<1>3. newest' \in Nat
  BY <1>1 DEF TypeInv
<1>4. TypeInv'
  BY <1>3 DEF TypeInv
<1>5. MessageInv'
  BY <1>1, <1>2, <1>3 DEF MessageInv, Answered
<1>6. BeginInv'
  <2>1. CASE token = None
    <3>1. newest = 0 /\ newest' = 1
      BY <1>1, <2>1 DEF Issues, BeginInv
    <3>. QED
      BY <1>2, <2>1, <3>1 DEF BeginInv, Answered
  <2>2. CASE token # None
    BY <1>1, <2>2 DEF TypeInv, BeginInv
  <2>. QED
    BY <2>1, <2>2
<1>7. SessionInv'
  <2>. SUFFICES ASSUME alive PROVE SessionInv'
    BY DEF SessionInv
  <2>1. token \in Nat /\ newest > 0
    BY SessionAssumption DEF SessionInv, BeginInv
  <2>2. m.kind = "beat" /\ m.token = newest
    BY <1>1, <2>1 DEF Issues
  <2>3. newest = token /\ newest' = token + 1
    BY <1>1, <2>1, <2>2 DEF SessionInv
  <2>4. ~(lock = Nobody /\ ~escaped)
    BY <2>1, <2>2, <2>3 DEF SessionInv
  <2>5. lock # Nobody =>
          \A x \in replies : ~(Told(x).code = "OK" /\ Told(x).challenge = challenges)
    BY <2>1, <2>3 DEF SessionInv
  <2>. QED
    BY <1>2, <2>1, <2>3, <2>4, <2>5 DEF SessionInv, Answered
<1>. QED
  BY <1>4, <1>5, <1>6, <1>7

\* The server repeats its cached response: the token in it is the newest.
LEMMA RepeatKeeps ==
  ASSUME ChainInv, NEW m \in requests, Served(m), ServerRepeats(m) PROVE ChainInv'
<1> USE DEF ChainInv, Served
<1>1. /\ newest' = newest /\ cache' = cache /\ cache # None
      /\ m.kind = "beat" /\ m.conn.challenge = cache.challenge
  BY DEF ServerRepeats, serverVars
<1>2. PICK r : Answered(m, r) /\ Told(r).token = newest
  BY <1>1, RepeatedReply DEF MessageInv
<1>3. token # None
  BY <1>1 DEF BeginInv
<1>4. TypeInv'
  BY <1>1 DEF TypeInv
<1>5. MessageInv'
  BY <1>1, <1>2 DEF TypeInv, MessageInv, Answered
<1>6. BeginInv'
  BY <1>1, <1>3 DEF BeginInv
<1>7. SessionInv'
  BY <1>1, <1>2 DEF SessionInv, Answered
<1>. QED
  BY <1>4, <1>5, <1>6, <1>7

\* A response that gives no token, or gives one without saying OK to a
\* heartbeat, and leaves the server's tokens as they are.
LEMMA RefusalKeeps ==
  ASSUME ChainInv, NEW m \in requests, Served(m), newest' = newest, cache' = cache,
         NEW r, Answered(m, r), Told(r).code # "OK",
         Told(r).token = None \/ (Told(r).token = newest + 1 /\ m.kind = "beat")
  PROVE  ChainInv'
<1> USE DEF ChainInv, Served
<1>1. TypeInv'
  BY DEF TypeInv
<1>2. MessageInv'
  BY DEF TypeInv, MessageInv, Answered
<1>3. BeginInv'
  BY DEF BeginInv, Answered
<1>4. SessionInv'
  BY DEF SessionInv, Answered
<1>. QED
  BY <1>1, <1>2, <1>3, <1>4

LEMMA ServesKeeps ==
  ASSUME ChainInv, NEW m \in requests, Serves(m) PROVE ChainInv'
<1>1. Served(m)
  BY DEF Serves, Served, sessionVars, threadVars, historyVars
<1>2. CASE ServerIssues(m)
  BY <1>1, <1>2, IssueKeeps
<1>3. CASE ServerRepeats(m)
  BY <1>1, <1>3, RepeatKeeps
<1>4. CASE ServerDenies(m)
  BY <1>1, <1>4, DeniedReply, RefusalKeeps DEF ServerDenies, serverVars
<1>5. CASE ServerEnds(m)
  BY <1>1, <1>5, EndingReply, RefusalKeeps DEF ServerEnds
<1>. QED
  BY <1>2, <1>3, <1>4, <1>5 DEF Serves

\* The invariant is inductive.
LEMMA ChainStep == ASSUME ChainInv, [Next]_vars PROVE ChainInv'
<1>1. ASSUME NEW b \in Beaters, Beater(b) PROVE ChainInv'
  <2>1. CASE InitAsk(b)
    BY <2>1, InitAskKeeps
  <2>2. CASE InitAccepted(b)
    BY <2>2, InitAcceptedKeeps
  <2>3. CASE InitFails(b)
    BY <2>3, InitFailsKeeps
  <2>4. CASE BeatAsk(b)
    BY <2>4, BeatAskKeeps
  <2>5. CASE Retry(b)
    BY <2>5, RetryKeeps
  <2>6. CASE BeatLost(b)
    BY <2>6, EndingKeeps DEF BeatLost, Fail
  <2>7. CASE BeatAccepted(b)
    BY <2>7, BeatAcceptedKeeps
  <2>8. CASE BeatFails(b)
    BY <2>8, EndingKeeps DEF BeatFails, Fail
  <2>9. CASE BeatEscapes(b)
    BY <2>9, EndingKeeps DEF BeatEscapes
  <2>. QED
    BY <1>1, <2>1, <2>2, <2>3, <2>4, <2>5, <2>6, <2>7, <2>8, <2>9 DEF Beater
<1>2. CASE Tick \/ UNCHANGED vars
  BY <1>2 DEF Tick, vars, sessionVars, threadVars, networkVars, serverVars, historyVars,
              ChainInv, TypeInv, MessageInv, BeginInv, SessionInv
<1>. QED
  BY <1>1, <1>2, ServesKeeps, StopKeeps DEF Next

\* The invariant holds in every run.
LEMMA ChainAlways == Spec => []ChainInv
BY ChainInit, ChainStep, PTL DEF Spec

-----------------------------------------------------------------------------

\* However the network treats requests and responses, and whatever a retry
\* repeats: between two heartbeats (_heartbeat_once, under its lock) a live
\* session has the token the server issued last.
THEOREM InStepAlways == Spec => []InStep
<1>1. ChainInv => InStep
  BY DEF ChainInv, SessionInv, InStep
<1>. QED
  BY <1>1, ChainAlways, PTL

\* Every step is one of the token chain's, or leaves it as it is.
LEMMA ChainStepMaps ==
  ASSUME ChainInv, [Next]_vars
  PROVE  [Chain!Next]_(Chain!vars)
<1> USE DEF Chain!Next, Chain!vars
<1>1. ASSUME UNCHANGED <<alive, token, newest>> PROVE UNCHANGED Chain!vars
  BY <1>1
<1>2. ASSUME NEW b \in Beaters, InitAccepted(b) PROVE Chain!Adopt
  <2>1. token = None /\ token' = 1 /\ newest = 1 /\ newest' = newest /\ alive'
    BY <1>2, AcceptedToken DEF InitAccepted, serverVars
  <2>. QED
    BY <2>1, SessionAssumption DEF Chain!Adopt
<1>3. ASSUME NEW b \in Beaters, BeatAccepted(b) PROVE [Chain!Next]_(Chain!vars)
  <2>1. /\ token # None /\ token' \in Nat /\ newest' = newest /\ alive' = alive
        /\ alive => token' = newest
    BY <1>3, RotatedToken DEF BeatAccepted, serverVars
  <2>2. CASE alive
    BY <2>1, <2>2, SessionAssumption DEF Chain!Adopt, ChainInv, BeginInv, SessionInv
  <2>3. CASE ~alive
    BY <2>1, <2>3, SessionAssumption
  <2>. QED
    BY <2>2, <2>3
<1>4. ASSUME alive' = FALSE, UNCHANGED <<token, newest>>, token # None PROVE Chain!End
  BY <1>4 DEF Chain!End
<1>5. ASSUME NEW m \in requests, ServerIssues(m), UNCHANGED <<alive, token>>
      PROVE  Chain!Grant \/ Chain!Rotate
  <2>1. newest' = newest + 1 /\ Issues(m)
    BY <1>5 DEF ServerIssues
  <2>2. CASE newest = 0
    BY <1>5, <2>1, <2>2 DEF Chain!Grant
  <2>3. CASE newest # 0
    <3>1. newest > 0 /\ token # None /\ m.kind = "beat" /\ m.token = newest
      BY <2>1, <2>3 DEF ChainInv, TypeInv, BeginInv, Issues
    <3>2. alive => newest = token
      BY <3>1 DEF ChainInv, SessionInv
    <3>. QED
      BY <1>5, <2>1, <3>1, <3>2 DEF Chain!Rotate
  <2>. QED
    BY <2>2, <2>3
<1>6. ASSUME NEW b \in Beaters, pc[b] = "beat" PROVE token # None
  BY <1>6, SessionAssumption DEF ChainInv, TypeInv, BeginInv
<1>7. ASSUME NEW b \in Beaters, Beater(b) PROVE [Chain!Next]_(Chain!vars)
  <2>1. CASE InitAsk(b) \/ InitFails(b) \/ BeatAsk(b) \/ Retry(b) \/ BeatEscapes(b)
    BY <1>1, <2>1 DEF InitAsk, InitFails, BeatAsk, Retry, BeatEscapes, sessionVars, serverVars
  <2>2. CASE BeatLost(b) \/ BeatFails(b)
    BY <1>4, <1>6, <2>2 DEF BeatLost, BeatFails, Fail, serverVars
  <2>. QED
    BY <1>2, <1>3, <1>7, <2>1, <2>2 DEF Beater
<1>8. ASSUME NEW m \in requests, Serves(m) PROVE [Chain!Next]_(Chain!vars)
  BY <1>1, <1>5, <1>8
  DEF Serves, ServerRepeats, ServerDenies, ServerEnds, sessionVars, serverVars
<1>9. CASE Stop
  BY <1>4, <1>9, SessionAssumption DEF Stop, Fail, serverVars, ChainInv, SessionInv
<1>10. CASE Tick \/ UNCHANGED vars
  BY <1>1, <1>10 DEF Tick, vars, sessionVars, serverVars
<1>. QED
  BY <1>7, <1>8, <1>9, <1>10 DEF Next

\* Rotation is a token chain (module TokenChain) for every number of heartbeating
\* threads and every network: the server is never two tokens ahead of a client
\* that may still beat, and the client moves to nothing but the newest token.
THEOREM RotationIsTokenChain == Spec => ImplementsTokenChain
<1>1. Init => Chain!Init
  BY DEF Init, Chain!Init
<1>. QED
  BY <1>1, ChainStepMaps, ChainAlways, PTL DEF Spec, ImplementsTokenChain, Chain!Spec

-----------------------------------------------------------------------------
(* Tokens that were sent, and the responses tokens came from.              *)

SpentInv ==
  /\ spent \subseteq Nat \X Nat
  /\ token = None => spent = {}
  /\ TokenSpentOnce
  /\ alive /\ ~escaped => \A x \in spent : x[1] <= token /\ (lock = Nobody => x[1] < token)

\* Tokens sent so far are no newer than the client's, and older than it between
\* heartbeats.
LEMMA SpentStep == ASSUME ChainInv, SpentInv, [Next]_vars PROVE SpentInv'
<1> USE DEF SpentInv, TokenSpentOnce
<1>1. ASSUME UNCHANGED <<alive, token, lock, spent, escaped>> PROVE SpentInv'
  BY <1>1
<1>2. ASSUME alive' = FALSE \/ escaped' = TRUE, token' = token, token # None,
             spent' = spent, escaped' = escaped \/ escaped' = TRUE
      PROVE  SpentInv'
  BY <1>2
<1>3. ASSUME NEW b \in Beaters, pc[b] = "beat" PROVE token # None
  BY <1>3, SessionAssumption DEF ChainInv, TypeInv, BeginInv
<1>4. ASSUME NEW b \in Beaters, InitAccepted(b) PROVE SpentInv'
  <2>1. spent = {} /\ spent' = {} /\ token' = 1
    BY <1>4, AcceptedToken DEF InitAccepted, historyVars
  <2>. QED
    BY <2>1
<1>5. ASSUME NEW b \in Beaters, BeatAsk(b) PROVE SpentInv'
  <2>1. /\ alive /\ lock = Nobody /\ lock' = b /\ UNCHANGED <<alive, token, escaped>>
        /\ spent' = spent \cup {<<token, challenges'>>}
    BY <1>5 DEF BeatAsk, Acquire
  <2>2. token \in Nat /\ challenges' \in Nat /\ lock' # Nobody /\ token # None
    BY <1>5, <2>1, SessionAssumption DEF BeatAsk, Ask, ChainInv, TypeInv, SessionInv
  <2>3. spent' \subseteq Nat \X Nat
    BY <2>1, <2>2
  <2>4. ~escaped => \A x \in spent : x[1] \in Nat /\ x[1] < token
    BY <2>1
  <2>5. ~escaped => \A x \in spent' : x[1] <= token /\ (x \in spent \/ x = <<token, challenges'>>)
    BY <2>1, <2>2, <2>4
  <2>6. ~escaped => \A x, y \in spent' : x[1] = y[1] => x[2] = y[2]
    <3>. SUFFICES ASSUME ~escaped, NEW x \in spent', NEW y \in spent', x[1] = y[1]
                  PROVE  x[2] = y[2]
      OBVIOUS
    <3>1. CASE x \in spent /\ y \in spent
      BY <3>1
    <3>2. CASE x = <<token, challenges'>> /\ y = <<token, challenges'>>
      BY <3>2
    <3>. QED
      BY <2>1, <2>2, <2>4, <3>1, <3>2
  <2>. QED
    BY <2>1, <2>2, <2>3, <2>5, <2>6
<1>6. ASSUME NEW b \in Beaters, BeatAccepted(b) PROVE SpentInv'
  <2>1. /\ token # None /\ token' \in Nat /\ token' # None
        /\ UNCHANGED <<alive, spent, escaped>>
        /\ alive => token' = token + 1 /\ token \in Nat
    BY <1>6, RotatedToken, SessionAssumption
    DEF BeatAccepted, historyVars, ChainInv, SessionInv
  <2>2. alive /\ ~escaped => \A x \in spent' : x[1] < token'
    BY <2>1
  <2>. QED
    BY <2>1, <2>2
<1>7. ASSUME NEW b \in Beaters, Beater(b) PROVE SpentInv'
  <2>1. CASE InitAsk(b) \/ InitFails(b) \/ Retry(b)
    BY <1>1, <2>1 DEF InitAsk, InitFails, Retry, sessionVars, historyVars
  <2>2. CASE BeatLost(b) \/ BeatFails(b)
    BY <1>2, <1>3, <2>2 DEF BeatLost, BeatFails, Fail
  <2>3. CASE BeatEscapes(b)
    BY <1>2, <1>3, <2>3 DEF BeatEscapes
  <2>. QED
    BY <1>4, <1>5, <1>6, <1>7, <2>1, <2>2, <2>3 DEF Beater
<1>8. CASE Stop
  BY <1>2, <1>8, SessionAssumption DEF Stop, Fail, ChainInv, SessionInv
<1>9. CASE (\E m \in requests : Serves(m)) \/ Tick \/ UNCHANGED vars
  BY <1>1, <1>9 DEF Serves, Tick, vars, sessionVars, historyVars
<1>. QED
  BY <1>7, <1>8, <1>9 DEF Next

\* "Repeat the exact token/challenge once" (_heartbeat_once): whatever the threads
\* and the network do, no token is ever sent with a second challenge, so a server
\* can tell a repeated heartbeat from a forked session.
THEOREM TokenSpentOnceAlways == Spec => []TokenSpentOnce
<1>1. Init => SpentInv
  BY DEF Init, SpentInv, TokenSpentOnce
<1>2. SpentInv => TokenSpentOnce
  BY DEF SpentInv
<1>. QED
  BY <1>1, <1>2, SpentStep, ChainAlways, PTL DEF Spec

\* A token the client takes comes from a signed response.
LEMMA TakenFromSigned ==
  ASSUME ChainInv, NEW b \in Beaters, InitAccepted(b) \/ BeatAccepted(b)
  PROVE  TokenWasSigned'
<1>1. PICK http \in Arriving(b) : /\ http.body.form = "signed" /\ http.body.signer = Config.key
                                 /\ token' = http.body.payload.token
  <2>1. CASE InitAccepted(b)
    <3>1. PICK http \in Arriving(b) :
            Authenticates(http, challenge[b]) /\ token' = http.body.payload.token
      BY <2>1 DEF InitAccepted
    <3>2. http.body.form = "signed" /\ http.body.signer = Config.key
      BY <3>1 DEF Authenticates, VerifySigned
    <3>. QED
      BY <3>1, <3>2
  <2>2. CASE BeatAccepted(b)
    BY <2>2, RotatingAnswer DEF BeatAccepted
  <2>. QED
    BY <2>1, <2>2
<1>2. \E r \in replies : /\ http.body.payload = Told(r)
                         /\ r.http.body.form = "signed" /\ r.http.body.signer = Config.key
  BY <1>1, ArrivingWasTold DEF ChainInv, MessageInv
<1>3. replies' = replies
  BY DEF InitAccepted, BeatAccepted, networkVars
<1>. QED
  BY <1>1, <1>2, <1>3 DEF TokenWasSigned, Told

\* Responses stay what they are, and a new token comes from one of them.
LEMMA SignedStep == ASSUME ChainInv, TokenWasSigned, [Next]_vars PROVE TokenWasSigned'
<1>1. ASSUME token' = token, replies \subseteq replies' PROVE TokenWasSigned'
  BY <1>1 DEF TokenWasSigned
<1>2. ASSUME NEW b \in Beaters, Beater(b) PROVE TokenWasSigned'
  BY <1>1, <1>2, TakenFromSigned
  DEF Beater, InitAsk, InitFails, BeatAsk, Retry, BeatLost, BeatFails, BeatEscapes,
      sessionVars, networkVars
<1>3. ASSUME NEW m \in requests, Serves(m) PROVE TokenWasSigned'
  <2>1. \E r : Answered(m, r)
    BY <1>3, IssuedReply, RepeatedReply, DeniedReply, EndingReply DEF Serves
  <2>. QED
    BY <1>1, <1>3, <2>1 DEF Serves, Answered, sessionVars
<1>4. CASE Stop \/ Tick \/ UNCHANGED vars
  BY <1>1, <1>4 DEF Stop, Tick, vars, sessionVars, networkVars
<1>. QED
  BY <1>2, <1>3, <1>4 DEF Next

\* Signed responses only (verify_signed, parse_unsigned): no network and no server
\* makes the client take a token from a response that was not signed.
THEOREM TokenWasSignedAlways == Spec => []TokenWasSigned
<1>1. Init => TokenWasSigned
  BY DEF Init, TokenWasSigned
<1>. QED
  BY <1>1, SignedStep, ChainAlways, PTL DEF Spec
-----------------------------------------------------------------------------
(* The bounds: every token the server issues was paid for with a challenge. *)

Granted(r, n) == Told(r).code = "OK" /\ Told(r).token # None => Told(r).token <= n

GrantInv ==
  /\ challenges <= MaxChallenges /\ newest <= challenges
  /\ token # None => token \in 1 .. challenges
  /\ \A b \in Beaters : pc[b] = "beat" => token < challenge[b]
  /\ \A m \in requests :
       m.conn.challenge >= 1 /\ (m.kind = "beat" => m.token < m.conn.challenge)
  /\ \A r \in replies : Granted(r, newest)
  /\ spent \subseteq Tokens \X (1 .. MaxChallenges)

ClockInv ==
  /\ now \in 0 .. MaxTime
  /\ attempt \in [Beaters -> 0 .. 2] /\ sentAt \in [Beaters -> 0 .. MaxTime]
  /\ \A b \in Beaters : pc[b] # "idle" =>
       attempt[b] \in {1, 2} /\ sentAt[b] <= now /\ now <= sentAt[b] + Timeout

FlagInv == open \in BOOLEAN /\ excused \in BOOLEAN /\ escaped \in BOOLEAN

BoundInv == GrantInv /\ ClockInv /\ FlagInv

\* What a step of the server leaves of the responses: one more, with no token that
\* it has not issued.
LEMMA ServedReply ==
  ASSUME ChainInv, GrantInv, NEW m \in requests, Serves(m)
  PROVE  /\ newest' \in {newest, newest + 1} /\ newest' <= challenges
         /\ \E r : Answered(m, r) /\ Granted(r, newest')
<1> USE DEF ChainInv, Granted
<1>0. newest \in Nat /\ challenges \in Nat
  BY DEF TypeInv
<1>1. CASE ServerIssues(m)
  <2>1. newest' = newest + 1 /\ Issues(m)
    BY <1>1 DEF ServerIssues
  <2>2. newest' <= challenges
    <3>1. CASE m.kind = "beat"
      BY <1>0, <2>1, <3>1 DEF Issues, MessageInv, GrantInv
    <3>2. CASE m.kind # "beat"
      <4>1. newest = 0 /\ m.kind = "init"
        BY <2>1, <3>2 DEF Issues
      <4>2. challenges >= 1
        BY <1>0 DEF GrantInv, MessageInv
      <4>. QED
        BY <1>0, <2>1, <4>1, <4>2
    <3>. QED
      BY <3>1, <3>2
  <2>. QED
    BY <1>0, <1>1, <2>1, <2>2, IssuedReply
<1>2. CASE ServerRepeats(m)
  BY <1>0, <1>2, RepeatedReply DEF ServerRepeats, serverVars, MessageInv, GrantInv
<1>3. CASE ServerDenies(m)
  BY <1>0, <1>3, DeniedReply DEF ServerDenies, serverVars, GrantInv
<1>4. CASE ServerEnds(m)
  BY <1>0, <1>4, EndingReply DEF ServerEnds, GrantInv
<1>. QED
  BY <1>1, <1>2, <1>3, <1>4 DEF Serves

\* The bounds hold at first.
LEMMA BoundInit == ASSUME Init PROVE BoundInv
<1>1. GrantInv
  BY SessionAssumption DEF Init, GrantInv
<1>2. ClockInv
  <2>1. 0 \in 0 .. MaxTime /\ 0 \in 0 .. 2
    BY SessionAssumption
  <2>2. attempt \in [Beaters -> 0 .. 2] /\ sentAt \in [Beaters -> 0 .. MaxTime]
    BY <2>1 DEF Init
  <2>. QED
    BY <2>1, <2>2 DEF Init, ClockInv
<1>3. FlagInv
  BY DEF Init, FlagInv
<1>. QED
  BY <1>1, <1>2, <1>3 DEF BoundInv

\* A thread asks: a challenge is drawn.
LEMMA AskBounds ==
  ASSUME ChainInv, BoundInv, NEW b \in Beaters, InitAsk(b) \/ BeatAsk(b) PROVE BoundInv'
<1> USE DEF ChainInv, BoundInv
<1>1. PICK kind \in {"init", "beat"}, t \in Nat \cup {None} :
        /\ Ask(b, kind, t) /\ pc[b] = "idle" /\ UNCHANGED <<now, token, replies, serverVars, excused, escaped>>
        /\ kind = "beat" => t = token /\ token # None
        /\ spent' = spent \/ (spent' = spent \cup {<<token, challenges'>>} /\ token # None)
  <2>1. CASE InitAsk(b)
    BY <2>1 DEF InitAsk, sessionVars
  <2>2. CASE BeatAsk(b)
    BY <2>2, SessionAssumption DEF BeatAsk, TypeInv, SessionInv
  <2>. QED
    BY <2>1, <2>2
<1>2. /\ challenges' = challenges + 1 /\ challenges' <= MaxChallenges
      /\ challenges \in Nat /\ newest \in Nat
      /\ pc' = [pc EXCEPT ![b] = kind] /\ challenge' = [challenge EXCEPT ![b] = challenges']
      /\ attempt' = [attempt EXCEPT ![b] = 1] /\ sentAt' = [sentAt EXCEPT ![b] = now]
      /\ requests' = requests \cup {Request(b, kind, challenges', 1, t)}
  BY <1>1, SessionAssumption DEF Ask, TypeInv
<1>3. token # None => token \in 1 .. challenges
  BY DEF GrantInv
<1>4. GrantInv'
  <2>1. challenges' <= MaxChallenges /\ newest' <= challenges' /\ (token' # None => token' \in 1 .. challenges')
    BY <1>1, <1>2, <1>3 DEF GrantInv, serverVars
  <2>2. \A c \in Beaters : pc'[c] = "beat" => token' < challenge'[c]
    BY <1>1, <1>2, <1>3 DEF GrantInv, TypeInv
  <2>3. \A m \in requests' :
          m.conn.challenge >= 1 /\ (m.kind = "beat" => m.token < m.conn.challenge)
    BY <1>1, <1>2, <1>3 DEF GrantInv, Request
  <2>4. \A r \in replies' : Granted(r, newest')
    BY <1>1 DEF GrantInv, serverVars
  <2>5. spent' \subseteq Tokens \X (1 .. MaxChallenges)
    <3>1. token # None => token \in Tokens /\ challenges' \in 1 .. MaxChallenges
      BY <1>2, <1>3, SessionAssumption DEF Tokens
    <3>. QED
      BY <1>1, <3>1 DEF GrantInv
  <2>. QED
    BY <2>1, <2>2, <2>3, <2>4, <2>5 DEF GrantInv
<1>5. ClockInv'
  BY <1>1, <1>2, ClockAssumption DEF ClockInv, TypeInv
<1>6. FlagInv'
  BY <1>1 DEF FlagInv, serverVars
<1>. QED
  BY <1>4, <1>5, <1>6

\* The request is repeated.
LEMMA RetryBounds ==
  ASSUME ChainInv, BoundInv, NEW b \in Beaters, Retry(b) PROVE BoundInv'
<1> USE DEF ChainInv, BoundInv
<1>1. /\ pc[b] = "beat" /\ attempt' = [attempt EXCEPT ![b] = 2] /\ sentAt' = [sentAt EXCEPT ![b] = now]
      /\ requests' = requests \cup {Request(b, "beat", challenge[b], 2, token)}
      /\ UNCHANGED <<now, token, pc, challenge, replies, newest, open, challenges, spent, excused, escaped>>
  BY DEF Retry, sessionVars, serverVars, historyVars
<1>2. token < challenge[b] /\ token \in Nat /\ token >= 1 /\ challenge[b] \in Nat
  BY <1>1, SessionAssumption DEF GrantInv, TypeInv, BeginInv
<1>3. GrantInv'
  BY <1>1, <1>2 DEF GrantInv, Request
<1>4. ClockInv'
  BY <1>1, ClockAssumption DEF ClockInv
<1>5. FlagInv'
  BY <1>1 DEF FlagInv
<1>. QED
  BY <1>3, <1>4, <1>5

\* A thread leaves an exchange, with the token it had or a new one.
LEMMA HangUpBounds ==
  ASSUME ChainInv, BoundInv, NEW b \in Beaters, HangsUp(b),
         token' = token \/ (lock \in {b, Nobody} /\ token' \in 1 .. challenges),
         UNCHANGED <<now, networkVars, serverVars, challenges, spent>>,
         excused' \in BOOLEAN, escaped' \in BOOLEAN
  PROVE  BoundInv'
<1> USE DEF ChainInv, BoundInv, HangsUp, networkVars, serverVars
<1>1. /\ \A c \in Beaters : pc'[c] = "beat" => pc[c] = "beat" /\ c # b /\ challenge'[c] = challenge[c]
      /\ \A c \in Beaters : pc'[c] = "beat" => lock = c
  BY DEF TypeInv
<1>2. GrantInv'
  <2>1. \A c \in Beaters : pc'[c] = "beat" => token' < challenge'[c]
    BY <1>1, SessionAssumption DEF GrantInv
  <2>. QED
    BY <2>1 DEF GrantInv
<1>3. ClockInv'
  <2>1. attempt' \in [Beaters -> 0 .. 2] /\ sentAt' \in [Beaters -> 0 .. MaxTime]
    BY SessionAssumption DEF ClockInv
  <2>2. \A c \in Beaters : pc'[c] # "idle" =>
          pc[c] # "idle" /\ attempt'[c] = attempt[c] /\ sentAt'[c] = sentAt[c]
    BY DEF TypeInv, ClockInv
  <2>. QED
    BY <2>1, <2>2 DEF ClockInv
<1>4. FlagInv'
  BY DEF FlagInv
<1>. QED
  BY <1>2, <1>3, <1>4

\* Every step keeps the bounds.
LEMMA BoundStep == ASSUME ChainInv, BoundInv, [Next]_vars PROVE BoundInv'
<1>0. TypeInv /\ MessageInv /\ BeginInv /\ GrantInv /\ ClockInv /\ FlagInv
  BY DEF ChainInv, BoundInv
<1>1. ASSUME NEW b \in Beaters, InitAccepted(b) PROVE BoundInv'
  <2>1. token' = 1 /\ lock = Nobody /\ newest = 1
    BY <1>0, <1>1, AcceptedToken DEF BeginInv
  <2>2. 1 \in 1 .. challenges
    BY <1>0, <2>1 DEF GrantInv, TypeInv
  <2>. QED
    BY <1>0, <1>1, <2>1, <2>2, HangUpBounds DEF InitAccepted, historyVars, FlagInv
<1>2. ASSUME NEW b \in Beaters, BeatAccepted(b) PROVE BoundInv'
  <2>1. PICK http \in Arriving(b) : Rotates(http, challenge[b]) /\ token' = http.body.payload.token
    BY <1>2 DEF BeatAccepted
  <2>2. PICK r \in replies : http.body.payload = Told(r)
    BY <1>0, <2>1, RotatingAnswer, ArrivingWasTold DEF MessageInv
  <2>3. Told(r).code = "OK" /\ token' = Told(r).token /\ token' # None /\ token' > 1
    BY <2>1, <2>2, RotatingAnswer DEF Rotates, IsRotatedToken
  <2>4. token' \in 1 .. challenges
    BY <1>0, <2>3 DEF GrantInv, Granted, MessageInv, TypeInv
  <2>5. lock = b
    BY <1>0, <1>2 DEF BeatAccepted, TypeInv
  <2>. QED
    BY <1>0, <1>2, <2>4, <2>5, HangUpBounds DEF BeatAccepted, historyVars, FlagInv
<1>3. ASSUME NEW b \in Beaters, InitFails(b) PROVE BoundInv'
  BY <1>0, <1>3, HangUpBounds DEF InitFails, sessionVars, historyVars, FlagInv
<1>4. ASSUME NEW b \in Beaters, BeatLost(b) \/ BeatFails(b) \/ BeatEscapes(b) PROVE BoundInv'
  <2>1. excused' \in BOOLEAN /\ escaped' \in BOOLEAN
    BY <1>0, <1>4 DEF BeatLost, BeatFails, BeatEscapes, FlagInv
  <2>. QED
    BY <1>0, <1>4, <2>1, HangUpBounds DEF BeatLost, BeatFails, BeatEscapes
<1>5. ASSUME NEW b \in Beaters, Beater(b) PROVE BoundInv'
  BY <1>1, <1>2, <1>3, <1>4, <1>5, AskBounds, RetryBounds DEF Beater
<1>6. ASSUME NEW m \in requests, Serves(m) PROVE BoundInv'
  <2>1. PICK r : Answered(m, r) /\ Granted(r, newest')
    BY <1>0, <1>6, ServedReply
  <2>2. newest' \in {newest, newest + 1} /\ newest' <= challenges
    BY <1>0, <1>6, ServedReply
  <2>3. /\ requests' = requests \ {m} /\ replies' = replies \cup {r}
        /\ UNCHANGED <<now, token, pc, challenge, attempt, sentAt, challenges, spent, excused, escaped>>
    BY <1>6, <2>1 DEF Serves, Answered, sessionVars, threadVars, historyVars
  <2>4. GrantInv'
    <3>1. \A x \in replies' : Granted(x, newest')
      BY <1>0, <2>1, <2>2, <2>3 DEF GrantInv, Granted, MessageInv, TypeInv
    <3>. QED
      BY <1>0, <2>2, <2>3, <3>1 DEF GrantInv
  <2>5. ClockInv'
    BY <1>0, <2>3 DEF ClockInv
  <2>6. FlagInv'
    <3>1. open' \in BOOLEAN
      BY <1>0, <1>6 DEF Serves, ServerIssues, ServerRepeats, ServerDenies, ServerEnds, serverVars,
        FlagInv
    <3>. QED
      BY <1>0, <2>3, <3>1 DEF FlagInv
  <2>. QED
    BY <2>4, <2>5, <2>6 DEF BoundInv
<1>7. CASE Stop
  BY <1>0, <1>7 DEF Stop, threadVars, networkVars, serverVars, BoundInv, GrantInv, ClockInv, FlagInv
<1>8. CASE Tick
  <2>1. ClockInv'
    BY <1>0, <1>8, ClockAssumption, SessionAssumption DEF Tick, threadVars, ClockInv
  <2>. QED
    BY <1>0, <1>8, <2>1
    DEF Tick, sessionVars, threadVars, networkVars, serverVars, historyVars, BoundInv, GrantInv, FlagInv
<1>9. CASE UNCHANGED vars
  BY <1>0, <1>9 DEF vars, sessionVars, threadVars, networkVars, serverVars, historyVars, BoundInv,
    GrantInv, ClockInv, FlagInv
<1>. QED
  BY <1>5, <1>6, <1>7, <1>8, <1>9 DEF Next

\* The state has its types and the tokens their bound, whatever is lost, late or
\* repeated: a token costs a challenge, and a thread in a heartbeat has the lock.
THEOREM HeartbeatTypeCorrect == Spec => []TypeOK
<1>1. ChainInv /\ BoundInv => TypeOK
  <2> SUFFICES ASSUME ChainInv, BoundInv PROVE TypeOK
    OBVIOUS
  <2>0. TypeInv /\ GrantInv /\ ClockInv /\ FlagInv
    BY DEF ChainInv, BoundInv
  <2>1. /\ newest \in Tokens /\ challenges \in 0 .. MaxChallenges /\ token \in Tokens \cup {None}
        /\ challenge \in [Beaters -> 0 .. MaxChallenges]
    <3>1. challenges \in Nat /\ newest \in Nat /\ challenges <= MaxChallenges /\ newest <= challenges
          /\ MaxChallenges \in Nat /\ (token # None => token \in 1 .. challenges)
      BY <2>0, SessionAssumption DEF TypeInv, GrantInv
    <3>2. \A b \in Beaters : challenge[b] \in 0 .. MaxChallenges
      BY <2>0, <3>1 DEF TypeInv
    <3>. QED
      BY <2>0, <3>1, <3>2 DEF Tokens, TypeInv
  <2>2. alive => token # None
    BY SessionAssumption DEF ChainInv, SessionInv
  <2>. QED
    BY <2>0, <2>1, <2>2 DEF TypeOK, TypeInv, GrantInv, ClockInv, FlagInv
<1>. QED
  BY <1>1, ChainAlways, BoundInit, BoundStep, PTL DEF Spec
-----------------------------------------------------------------------------
(* One loss per heartbeat ends no session.                                  *)

\* When the first request of the exchange was sent, at the earliest.
Since(b) == IF attempt[b] = 1 THEN sentAt[b] ELSE sentAt[b] - Timeout

\* A time the server put on a response to this exchange.
Timely(b, time) == \E t \in Int : time = Seconds(t) /\ Since(b) <= t /\ t <= now

Grants(http, t, c, time) == http = Signed(Payload("OK", t, c, time))

\* As long as the server serves the session and nothing excuses its end, all that
\* is on its way for a heartbeat is the same request, and responses to it that
\* rotate the token and are fresh.
ServedInv(b) ==
  pc[b] = "beat" =>
    /\ \A m \in requests :
         m.conn.challenge = challenge[b] <=> m.kind = "beat" /\ m.token = token
    /\ newest # token => cache # None /\ cache.challenge = challenge[b]
    /\ cache # None /\ cache.challenge = challenge[b] => Timely(b, cache.time)
    /\ \A r \in replies :
         r.conn.challenge = challenge[b] =>
           \E time : Timely(b, time) /\ Grants(r.http, newest, challenge[b], time)

LossInv ==
  /\ escaped => excused
  /\ \A r \in replies : r.conn.challenge = Told(r).challenge
  /\ open /\ ~excused => /\ token # None => alive
                         /\ \A b \in Beaters : ServedInv(b)

\* Two exchanges and the difference of the clocks fit in the freshness window.
LEMMA FreshEnough ==
  ASSUME ClockInv, NEW b \in Beaters, pc[b] # "idle", NEW time, Timely(b, time)
  PROVE  Distance(time, Seconds(ClientNow)) <= Config.skew
<1>1. PICK t \in Int : time = Seconds(t) /\ Since(b) <= t /\ t <= now
  BY DEF Timely
<1>2. /\ now \in Int /\ sentAt[b] \in Int /\ now <= sentAt[b] + Timeout
      /\ Timeout \in Nat /\ Offset \in Int /\ Config.skew \in Int
      /\ Offset + 2 * Timeout <= 2 * Config.skew /\ -Offset <= 2 * Config.skew
  <2>1. now \in Int /\ sentAt[b] \in Int /\ now <= sentAt[b] + Timeout
    BY SessionAssumption DEF ClockInv
  <2>2. Config.skew \in Int
    BY SessionAssumption DEF ValidConfig
  <2>. QED
    BY <2>1, <2>2, ClockAssumption
<1>3. sentAt[b] - Timeout <= t
  BY <1>1, <1>2 DEF Since
<1>4. ASSUME NEW x \in Int, NEW y \in Int, NEW s \in Int, x <= y + 2 * s, y <= x + 2 * s
      PROVE  Distance(Seconds(x), Seconds(y)) <= s
  BY <1>4, SMT DEF Distance, Seconds
<1>5. t <= now + Offset + 2 * Config.skew /\ now + Offset <= t + 2 * Config.skew
  BY <1>1, <1>2, <1>3
<1>. QED
  BY <1>1, <1>2, <1>4, <1>5 DEF ClientNow

\* A response that grants the next token, in time, rotates.
LEMMA GrantRotates ==
  ASSUME NEW http, NEW t \in Nat, t > 1, NEW c, NEW time, Grants(http, t, c, time),
         Distance(time, Seconds(ClientNow)) <= Config.skew
  PROVE  Rotates(http, c)
<1> DEFINE p == Payload("OK", t, c, time)
<1>1. /\ p.typed /\ p.protocol /\ p.kid = ServerKid /\ p.system = Config.system
      /\ p.code = "OK" /\ p.challenge = c /\ p.server_time = time /\ p.token = t
  BY DEF Payload
<1>2. /\ p.authed <=> ExpectedAuthenticated("OK")
      /\ p.is_error <=> ExpectedError("OK")
      /\ p.is_failure <=> ExpectedFailure("OK")
      /\ FlagsAgree(p)
  BY Zenon DEF Payload, FlagsAgree
<1> HIDE DEF p
<1>3. /\ http.status = 200 /\ http.protocol /\ http.signed = "true" /\ http.kid = ServerKid
      /\ http.body.form = "signed" /\ http.body.signer = Config.key /\ http.body.payload = p
  BY DEF Grants, Signed, p
<1>4. ParsePayload(Config, http, TRUE, c, ClientNow) = "verified"
  <2>1. KeyIdAgrees(Config, http, p)
    BY <1>1, <1>3, ServerAssumption DEF KeyIdAgrees
  <2>2. Answers(Config, p, c) /\ Fresh(Config, p, ClientNow) /\ p.code \in RESPONSE_CODES
    BY <1>1 DEF Answers, Fresh, RESPONSE_CODES
  <2>. QED
    BY <1>1, <1>2, <1>3, <2>1, <2>2 DEF ParsePayload
<1>5. VerifySigned(Config, http, c, ClientNow) = "verified"
  BY <1>3, <1>4, SessionAssumption DEF VerifySigned
<1>6. Judge(http, c) = "verified" /\ TransportOk(http)
  BY <1>3, <1>5 DEF Judge, TransportOk
<1>7. p.authed /\ p.token # None /\ IsRotatedToken(p.token)
  BY <1>1, <1>2, SessionAssumption DEF ExpectedAuthenticated, IsRotatedToken
<1>. QED
  BY <1>1, <1>3, <1>6, <1>7 DEF Rotates

\* So a heartbeat that finds its own response is not ended by it.
LEMMA GenuineRotates ==
  ASSUME ChainInv, BoundInv, LossInv, open, ~excused, NEW b \in Beaters, pc[b] = "beat",
         NEW http \in Genuine(b)
  PROVE  Rotates(http, challenge[b])
<1>1. PICK r \in replies : http = r.http /\ r.conn.challenge = challenge[b]
  BY DEF Genuine, Connection
<1>2. PICK time : Timely(b, time) /\ Grants(http, newest, challenge[b], time)
  BY <1>1 DEF LossInv, ServedInv
<1>3. Distance(time, Seconds(ClientNow)) <= Config.skew
  BY <1>2, FreshEnough DEF BoundInv
<1>4. newest \in Nat /\ newest > 1
  <2>1. /\ lock = b /\ token # None /\ alive /\ newest \in Nat
        /\ token \in 1 .. challenges /\ challenge[b] = challenges
    BY SessionAssumption
    DEF ChainInv, TypeInv, BeginInv, SessionInv, LossInv, BoundInv, GrantInv
  <2>2. Told(r).code = "OK" /\ Told(r).challenge = challenges
    BY <1>1, <1>2, <2>1 DEF Grants, Signed, Payload, Told
  <2>3. newest = token + 1
    BY <2>1, <2>2, SessionAssumption DEF ChainInv, SessionInv
  <2>. QED
    BY <2>1, <2>3
<1>. QED
  BY <1>2, <1>3, <1>4, GrantRotates

\* A response travels to the connection whose request it answers.
LEMMA ServedConnection ==
  ASSUME NEW m \in requests, Serves(m)
  PROVE  \A x \in replies' :
           x \in replies \/ (x.conn = m.conn /\ Told(x).challenge = m.conn.challenge)
<1>1. \E r : Answered(m, r)
  BY IssuedReply, RepeatedReply, DeniedReply, EndingReply DEF Serves
<1>2. \A x \in replies' : x \in replies \/ x.conn = m.conn
  BY DEF Serves, ServerIssues, ServerRepeats, ServerDenies, ServerEnds, Reply
<1>. QED
  BY <1>1, <1>2 DEF Answered

\* What a server that goes on serving issues to a heartbeat grants the next token.
LEMMA IssuedGrants ==
  ASSUME NEW m \in requests, ServerIssues(m), open', m.kind = "beat"
  PROVE  \A x \in replies' :
           x \in replies \/ Grants(x.http, newest', m.conn.challenge, Seconds(now))
<1>1. PICK code \in {"OK"}, signing \in BOOLEAN :
        LET payload == Payload(code, newest', m.conn.challenge, Seconds(now))
        IN Reply(m, IF signing THEN Signed(payload) ELSE Unsigned(payload)) /\ open' = signing
  BY DEF ServerIssues
<1>. QED
  BY <1>1 DEF Reply, Grants

LEMMA RepeatedGrants ==
  ASSUME NEW m \in requests, ServerRepeats(m)
  PROVE  \A x \in replies' :
           x \in replies \/ Grants(x.http, cache.token, cache.challenge, cache.time)
  BY DEF ServerRepeats, Reply, Grants

\* While a thread is in a heartbeat of a session that nothing has ended.
LEMMA InHeartbeat ==
  ASSUME ChainInv, BoundInv, LossInv, open, ~excused, NEW b \in Beaters, pc[b] = "beat"
  PROVE  /\ lock = b /\ lock # Nobody /\ token # None /\ alive /\ ServedInv(b)
         /\ token \in Nat /\ newest \in {token, token + 1} /\ newest > 0
         /\ challenge[b] = challenges /\ challenges \in Nat
         /\ \A m \in requests : m.kind = "beat" => m.token <= token
         /\ \A c \in Beaters : pc[c] # "idle" => c = b
  BY SessionAssumption
  DEF ChainInv, TypeInv, BeginInv, SessionInv, LossInv, BoundInv, GrantInv

\* The server keeps its promise.
LEMMA ServedKeeps ==
  ASSUME ChainInv, BoundInv, LossInv, NEW m \in requests, Serves(m), open', ~excused',
         NEW b \in Beaters, pc[b] = "beat"
  PROVE  ServedInv(b)'
<1>1. /\ requests' = requests \ {m}
      /\ UNCHANGED <<now, alive, token, lock, pc, attempt, challenge, sentAt, challenges, excused>>
  BY DEF Serves, sessionVars, threadVars, historyVars
<1>2. open /\ ~excused /\ ~ServerEnds(m)
  BY <1>1 DEF Serves, ServerIssues, ServerRepeats, ServerDenies, ServerEnds, serverVars
<1>3. /\ lock # Nobody /\ token # None /\ alive /\ ServedInv(b) /\ token \in Nat
      /\ newest \in {token, token + 1} /\ newest > 0 /\ challenge[b] = challenges
      /\ \A q \in requests : q.kind = "beat" => q.token <= token
  BY <1>2, InHeartbeat
<1>4. /\ now \in Int /\ Since(b) \in Int /\ Since(b) <= now
  BY SessionAssumption, ClockAssumption DEF BoundInv, ClockInv, Since
<1>5. Since(b)' = Since(b) /\ \A time : Timely(b, time)' <=> Timely(b, time)
  BY <1>1 DEF Since, Timely
<1>6. \A x \in replies : x.conn.challenge = challenge[b] =>
         \E time : Timely(b, time) /\ Grants(x.http, newest, challenge[b], time)
  BY <1>3 DEF ServedInv
<1>7. \A q \in requests' :
        q.conn.challenge = challenge[b] <=> q.kind = "beat" /\ q.token = token
  BY <1>1, <1>3 DEF ServedInv
<1>8. CASE ServerIssues(m)
  <2>1. m.kind = "beat" /\ m.token = newest /\ newest = token /\ newest' = newest + 1
    BY <1>3, <1>8 DEF ServerIssues, Issues
  <2>2. m.conn.challenge = challenge[b]
    BY <1>3, <2>1 DEF ServedInv
  <2>3. /\ cache' = [token |-> newest', challenge |-> m.conn.challenge, time |-> Seconds(now)]
        /\ cache' # None
    <3>1. cache' = [token |-> newest', challenge |-> m.conn.challenge, time |-> Seconds(now)]
      BY <1>8 DEF ServerIssues
    <3>2. newest' \in Nat /\ m.conn.challenge \in Nat
      BY <1>3, <2>1, <2>2 DEF ChainInv, MessageInv
    <3>3. Seconds(now) \in Int
      BY <1>4, SMT DEF Seconds
    <3>4. cache' \in [token : Nat, challenge : Nat, time : Int]
      BY <3>1, <3>2, <3>3
    <3>. QED
      BY <3>1, <3>4, ServerAssumption
  <2>4. Timely(b, Seconds(now))
    BY <1>4 DEF Timely
  <2>5. \A x \in replies : x.conn.challenge # challenge[b]
    <3>. SUFFICES ASSUME NEW x \in replies, x.conn.challenge = challenge[b] PROVE FALSE
      OBVIOUS
    <3>1. Told(x).code = "OK"
      <4>1. PICK time : Grants(x.http, newest, challenge[b], time)
        BY <1>6
      <4>. QED
        BY <4>1 DEF Grants, Signed, Payload, Told
    <3>2. Told(x).challenge = challenges
      BY <1>3 DEF LossInv
    <3>. QED
      BY <1>3, <2>1, <3>1, <3>2 DEF ChainInv, SessionInv
  <2>6. \A x \in replies' : x.conn.challenge = challenge[b] =>
           Grants(x.http, newest', challenge[b], Seconds(now))
    BY <1>8, <2>1, <2>2, <2>5, IssuedGrants
  <2>. QED
    BY <1>1, <1>5, <1>7, <2>2, <2>3, <2>4, <2>6 DEF ServedInv
<1>9. CASE ServerRepeats(m)
  <2>1. /\ newest' = newest /\ cache' = cache /\ cache # None
        /\ m.conn.challenge = cache.challenge /\ cache.token = newest
    BY <1>9 DEF ServerRepeats, serverVars, ChainInv, MessageInv
  <2>2. \A x \in replies' : x \in replies \/
          (x.conn.challenge = cache.challenge /\ Grants(x.http, newest, cache.challenge, cache.time))
    BY <1>9, <2>1, ServedConnection, RepeatedGrants
  <2>3. cache.challenge = challenge[b] => Timely(b, cache.time)
    BY <1>3, <2>1 DEF ServedInv
  <2>4. \A x \in replies' : x.conn.challenge = challenge[b] =>
           \E time : Timely(b, time) /\ Grants(x.http, newest, challenge[b], time)
    BY <1>6, <2>2, <2>3
  <2>. QED
    BY <1>1, <1>3, <1>5, <1>7, <2>1, <2>4 DEF ServedInv
<1>10. CASE ServerDenies(m)
  <2>1. /\ newest' = newest /\ cache' = cache
        /\ ~Issues(m) /\ ~(cache # None /\ m.conn.challenge = cache.challenge)
    BY <1>2, <1>10 DEF ServerDenies, serverVars
  <2>2. m.conn.challenge # challenge[b]
    BY <1>3, <2>1 DEF ServedInv, Issues
  <2>3. \A x \in replies' : x.conn.challenge = challenge[b] => x \in replies
    BY <2>2, ServedConnection
  <2>4. \A x \in replies' : x.conn.challenge = challenge[b] =>
           \E time : Timely(b, time) /\ Grants(x.http, newest, challenge[b], time)
    BY <1>6, <2>3
  <2>. QED
    BY <1>1, <1>3, <1>5, <1>7, <2>1, <2>4 DEF ServedInv
<1>. QED
  BY <1>2, <1>8, <1>9, <1>10 DEF Serves

\* A step that leaves no thread in a heartbeat, and ends no session unexcused.
LEMMA OutsideKeeps ==
  ASSUME ChainInv, LossInv, \A c \in Beaters : pc'[c] # "beat", open' = open, replies' = replies,
         escaped' => excused', ~excused' => ~excused,
         open' /\ ~excused' /\ token' # None => alive' \/ (token # None /\ alive' = alive)
  PROVE  LossInv'
  BY DEF LossInv, ServedInv

\* The first request of a heartbeat: nothing on its way has its challenge or token.
LEMMA AskServed ==
  ASSUME ChainInv, BoundInv, LossInv, NEW a \in Beaters, BeatAsk(a) PROVE LossInv'
<1>1. /\ alive /\ lock = Nobody /\ challenges' = challenges + 1
      /\ pc[a] = "idle" /\ pc' = [pc EXCEPT ![a] = "beat"]
      /\ challenge' = [challenge EXCEPT ![a] = challenges']
      /\ requests' = requests \cup {Request(a, "beat", challenges', 1, token)}
      /\ UNCHANGED <<now, alive, token, replies, newest, cache, open, excused, escaped>>
  BY DEF BeatAsk, Acquire, Ask, serverVars
<1>2. /\ token \in Nat /\ challenges \in Nat
      /\ \A c \in Beaters : pc'[c] = "beat" => c = a
      /\ challenge'[a] = challenges + 1
  BY <1>1, SessionAssumption DEF ChainInv, TypeInv, SessionInv
<1>3. /\ \A m \in requests : m.conn.challenge \in Nat /\ m.conn.challenge <= challenges
      /\ \A r \in replies : r.conn.challenge \in Nat /\ r.conn.challenge <= challenges
      /\ cache # None => cache.challenge \in Nat /\ cache.challenge <= challenges
  BY DEF ChainInv, MessageInv, LossInv
<1>4. ASSUME open, ~excused PROVE ServedInv(a)'
  <2>1. newest = token /\ \A m \in requests : m.kind = "beat" => m.token \in Nat /\ m.token < token
    BY <1>1, <1>4 DEF ChainInv, MessageInv, SessionInv, LossInv
  <2>2. \A m \in requests' :
          m.conn.challenge = challenge'[a] <=> m.kind = "beat" /\ m.token = token'
    BY <1>1, <1>2, <1>3, <2>1 DEF Request
  <2>3. ~(cache' # None /\ cache'.challenge = challenge'[a])
    BY <1>1, <1>2, <1>3
  <2>4. \A r \in replies' : r.conn.challenge # challenge'[a]
    BY <1>1, <1>2, <1>3
  <2>. QED
    BY <1>1, <2>1, <2>2, <2>3, <2>4 DEF ServedInv
<1>. QED
  BY <1>1, <1>2, <1>4 DEF LossInv, ServedInv

\* The repetition is the same request, and the first may be as old as Timeout.
LEMMA RetryServed ==
  ASSUME ChainInv, BoundInv, LossInv, NEW a \in Beaters, Retry(a) PROVE LossInv'
<1>1. /\ pc[a] = "beat" /\ attempt[a] = 1
      /\ attempt' = [attempt EXCEPT ![a] = 2] /\ sentAt' = [sentAt EXCEPT ![a] = now]
      /\ requests' = requests \cup {Request(a, "beat", challenge[a], 2, token)}
      /\ UNCHANGED <<now, alive, token, pc, challenge, replies, newest, cache, open, excused, escaped>>
  BY DEF Retry, sessionVars, serverVars, historyVars
<1>2. ASSUME open, ~excused PROVE ServedInv(a)' /\ \A c \in Beaters : pc[c] = "beat" => c = a
  <2>1. ServedInv(a) /\ \A c \in Beaters : pc[c] = "beat" => c = a
    BY <1>1, <1>2, InHeartbeat
  <2>2. Since(a) = sentAt[a] /\ Since(a)' = now - Timeout /\ Since(a)' <= Since(a)
        /\ Since(a) \in Int /\ Since(a)' \in Int /\ now \in Int
    BY <1>1, SessionAssumption, ClockAssumption DEF BoundInv, ClockInv, Since
  <2>3. \A time : Timely(a, time) => Timely(a, time)'
    BY <1>1, <2>2 DEF Timely
  <2>4. \A m \in requests' :
          m.conn.challenge = challenge'[a] <=> m.kind = "beat" /\ m.token = token'
    BY <1>1, <2>1 DEF ServedInv, Request
  <2>5. \A r \in replies' : r.conn.challenge = challenge'[a] =>
          \E time : Timely(a, time)' /\ Grants(r.http, newest', challenge'[a], time)
    BY <1>1, <2>1, <2>3 DEF ServedInv
  <2>. QED
    BY <1>1, <2>1, <2>3, <2>4, <2>5 DEF ServedInv
<1>. QED
  BY <1>1, <1>2 DEF LossInv, ServedInv

\* Every step keeps that invariant.
LEMMA LossStep == ASSUME ChainInv, BoundInv, LossInv, [Next]_vars PROVE LossInv'
<1>0. TypeInv /\ BeginInv /\ FlagInv /\ (escaped => excused)
  BY DEF ChainInv, BoundInv, LossInv
<1>1. ASSUME NEW a \in Beaters, InitAsk(a) \/ InitAccepted(a) \/ InitFails(a) PROVE LossInv'
  <2>1. token = None /\ \A c \in Beaters : pc[c] # "beat"
    BY <1>0, <1>1, SessionAssumption DEF InitAsk, InitAccepted, InitFails, TypeInv, BeginInv
  <2>2. \A c \in Beaters : pc'[c] # "beat"
    BY <1>0, <1>1, <2>1 DEF InitAsk, InitAccepted, InitFails, Ask, HangsUp, TypeInv
  <2>3. /\ open' = open /\ replies' = replies /\ escaped' = escaped /\ excused' = excused
        /\ token' # None => alive'
    BY <1>1, <2>1 DEF InitAsk, InitAccepted, InitFails, sessionVars, networkVars, serverVars, historyVars
  <2>. QED
    BY <1>0, <2>1, <2>2, <2>3, OutsideKeeps
<1>2. ASSUME NEW a \in Beaters, pc[a] = "beat", HangsUp(a) PROVE \A c \in Beaters : pc'[c] # "beat"
  BY <1>0, <1>2 DEF HangsUp, TypeInv
<1>3. ASSUME NEW a \in Beaters, BeatAccepted(a) \/ BeatLost(a) \/ BeatEscapes(a) PROVE LossInv'
  <2>1. pc[a] = "beat" /\ \A c \in Beaters : pc'[c] # "beat"
    BY <1>2, <1>3 DEF BeatAccepted, BeatLost, BeatEscapes
  <2>2. token # None
    BY <1>0, <2>1, SessionAssumption DEF TypeInv, BeginInv
  <2>3. /\ open' = open /\ replies' = replies
        /\ \/ excused' = TRUE
           \/ escaped' = escaped /\ excused' = excused /\ alive' = alive
    BY <1>3 DEF BeatAccepted, BeatLost, BeatEscapes, networkVars, serverVars, historyVars
  <2>. QED
    BY <1>0, <2>1, <2>2, <2>3, OutsideKeeps
<1>4. ASSUME NEW a \in Beaters, BeatFails(a) PROVE LossInv'
  <2>1. PICK http \in Arriving(a) :
          ~Rotates(http, challenge[a]) /\ excused' = (excused \/ http \notin Genuine(a))
    BY <1>4 DEF BeatFails
  <2>2. /\ pc[a] = "beat" /\ open' = open /\ replies' = replies /\ escaped' = escaped
        /\ \A c \in Beaters : pc'[c] # "beat"
    BY <1>2, <1>4 DEF BeatFails, networkVars, serverVars
  <2>3. ~open \/ excused'
    BY <2>1, <2>2, GenuineRotates
  <2>. QED
    BY <1>0, <2>1, <2>2, <2>3, OutsideKeeps
<1>5. ASSUME NEW a \in Beaters, Beater(a) PROVE LossInv'
  BY <1>1, <1>3, <1>4, <1>5, AskServed, RetryServed DEF Beater
<1>6. ASSUME NEW m \in requests, Serves(m) PROVE LossInv'
  <2>1. UNCHANGED <<alive, token, pc, excused, escaped>>
    BY <1>6 DEF Serves, sessionVars, threadVars, historyVars
  <2>2. open' => open
    BY <1>6 DEF Serves, ServerIssues, ServerRepeats, ServerDenies, ServerEnds, serverVars
  <2>3. \A r \in replies' : r.conn.challenge = Told(r).challenge
    BY <1>6, ServedConnection DEF LossInv
  <2>4. ASSUME open', ~excused', NEW b \in Beaters PROVE ServedInv(b)'
    <3>1. CASE pc[b] = "beat"
      BY <1>6, <2>4, <3>1, ServedKeeps
    <3>2. CASE pc[b] # "beat"
      BY <2>1, <3>2 DEF ServedInv
    <3>. QED
      BY <3>1, <3>2
  <2>. QED
    BY <2>1, <2>2, <2>3, <2>4 DEF LossInv
<1>7. CASE Stop
  BY <1>7 DEF Stop, networkVars, LossInv
<1>8. CASE Tick \/ UNCHANGED vars
  <2>1. /\ now' \in Int /\ now \in Int /\ now <= now'
        /\ UNCHANGED <<alive, token, pc, attempt, challenge, sentAt, requests, replies, newest, cache,
                       open, excused, escaped>>
    BY <1>8, SessionAssumption
    DEF Tick, vars, sessionVars, threadVars, networkVars, serverVars, historyVars, BoundInv, ClockInv
  <2>2. \A b \in Beaters : Since(b)' = Since(b)
    BY <2>1 DEF Since
  <2>3. \A b \in Beaters : Since(b) \in Int
    BY SessionAssumption, ClockAssumption DEF BoundInv, ClockInv, Since
  <2>4. \A b \in Beaters : \A time : Timely(b, time) => Timely(b, time)'
    BY <2>1, <2>2, <2>3 DEF Timely
  <2>5. ASSUME NEW b \in Beaters, ServedInv(b) PROVE ServedInv(b)'
    <3>. SUFFICES ASSUME pc[b] = "beat" PROVE ServedInv(b)'
      BY <2>1 DEF ServedInv
    <3>1. \A r \in replies' : r.conn.challenge = challenge'[b] =>
            \E time : Timely(b, time)' /\ Grants(r.http, newest', challenge'[b], time)
      BY <2>1, <2>4, <2>5 DEF ServedInv
    <3>. QED
      BY <2>1, <2>4, <2>5, <3>1 DEF ServedInv
  <2>. QED
    BY <2>1, <2>5 DEF LossInv
<1>. QED
  BY <1>5, <1>6, <1>7, <1>8 DEF Next

\* "a lost heartbeat response is retried once, idempotently" (_heartbeat_once):
\* wherever one exchange of a heartbeat is lost, however late its request arrives,
\* for all clocks and all timeouts of which two fit in the freshness window, a
\* session dies of nothing but stop(), two losses in a row, a response that is not
\* its own or was damaged, or a server that ends it.
THEOREM OneLossAlwaysSurvived == Spec => []OneLossSurvived
<1>1. Init => LossInv
  BY DEF Init, LossInv, ServedInv
<1>2. LossInv => OneLossSurvived
  BY DEF LossInv, OneLossSurvived
<1>. QED
  BY <1>1, <1>2, ChainAlways, BoundInit, BoundStep, LossStep, PTL DEF Spec
=============================================================================
