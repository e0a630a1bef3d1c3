-------------------------- MODULE HeartbeatProtocol --------------------------
(***************************************************************************)
(* One session between client and server: the initialization exchange,     *)
(* then heartbeats that rotate the session token (client._authenticate,    *)
(* BedrockSession._heartbeat_once), over a network that delays and loses   *)
(* requests and responses, delivers a request after its sender gave up,    *)
(* damages a response or delivers that of an earlier exchange.             *)
(*                                                                         *)
(* The server is external: it is what the client's comments rely on.  It   *)
(* rotates the token it issued last, answers a repeated request with the   *)
(* response it has cached, and denies anything else.                       *)
(*                                                                         *)
(* What becomes of the session after fail(), hooks and shutdown, is the    *)
(* subject of module BedrockClient.  Time is in half seconds.              *)
(***************************************************************************)
EXTENDS ResponseVerification, FiniteSets

CONSTANTS
  Beaters,      \* threads that heartbeat: the daemon, callers of heartbeat_now
  Nobody,
  Config,       \* the part of the client's configuration that verification reads
  OtherKey,     \* a signing key that is not pinned
  Timeout,      \* bound on one exchange
  Offset,       \* the client's clock is ahead of the server's by
  MaxTime, MaxChallenges  \* bounds

\* The key ID the server signs with.
ServerKid == "kid"

\* The freshness window is wide enough for both clocks and for the cached
\* response of the first of two exchanges.
ASSUME ClockAssumption ==
  /\ Timeout \in Nat /\ Offset \in Int
  /\ Offset + 2 * Timeout <= 2 * Config.skew
  /\ -Offset <= 2 * Config.skew

ASSUME SessionAssumption ==
  /\ ValidConfig(Config) /\ Config.rawKey /\ Config.key # OtherKey
  /\ Nobody \notin Beaters /\ None # Nobody /\ {None, Nobody} \cap Nat = {}
  /\ {MaxTime, MaxChallenges} \subseteq Nat

\* The key the server signs with is the one the client pinned, if it pinned any,
\* and None is nothing that the server caches.
ASSUME ServerAssumption ==
  /\ None # ServerKid /\ Config.kid \in {None, ServerKid}
  /\ None \notin [token : Nat, challenge : Nat, time : Int]

VARIABLES
  now,          \* the server's clock
  \* the client's session
  alive, token, lock,
  pc,           \* of a thread: idle, init or beat (an exchange is under way)
  attempt, challenge, sentAt,
  \* the network
  requests, replies,
  \* the server: the last token issued, the last rotation, whether it serves
  newest, cache, open,
  \* history
  challenges,   \* challenges drawn so far
  spent,        \* <<token, challenge>> of every heartbeat sent
  excused,      \* something happened that may end the session
  escaped       \* a heartbeat was left by an exception nobody handles

sessionVars == <<alive, token, lock>>
threadVars  == <<pc, attempt, challenge, sentAt>>
networkVars == <<requests, replies>>
serverVars  == <<newest, cache, open>>
historyVars == <<challenges, spent, excused, escaped>>
vars == <<now, sessionVars, threadVars, networkVars, serverVars, historyVars>>

Init ==
  /\ now = 0
  /\ alive = FALSE /\ token = None /\ lock = Nobody
  /\ pc = [b \in Beaters |-> "idle"]
  /\ attempt = [b \in Beaters |-> 0]
  /\ challenge = [b \in Beaters |-> 0]
  /\ sentAt = [b \in Beaters |-> 0]
  /\ requests = {} /\ replies = {}
  /\ newest = 0 /\ cache = None /\ open = TRUE
  /\ challenges = 0 /\ spent = {} /\ excused = FALSE /\ escaped = FALSE

\* The n-th token of the session: BRK_ is the prefix of the first, BRF_ that of
\* every other.
IsInitToken(t)    == t = 1
IsRotatedToken(t) == t > 1

-----------------------------------------------------------------------------
(* Exchanges                                                               *)

Connection(b) == [challenge |-> challenge[b], attempt |-> attempt[b]]

Request(b, kind, c, n, t) ==
  [kind |-> kind, conn |-> [challenge |-> c, attempt |-> n], token |-> t]

\* generate_challenge, and the first request with it.
Ask(b, kind, t) ==
  /\ challenges < MaxChallenges /\ challenges' = challenges + 1
  /\ pc' = [pc EXCEPT ![b] = kind]
  /\ challenge' = [challenge EXCEPT ![b] = challenges']
  /\ attempt' = [attempt EXCEPT ![b] = 1]
  /\ sentAt' = [sentAt EXCEPT ![b] = now]
  /\ requests' = requests \cup {Request(b, kind, challenges', 1, t)}

\* What thread b may find as the response of its exchange: the response itself,
\* that of an earlier exchange, or a damaged one, whose payload may be another than the
\* server's: the next token, by whoever does not have the pinned key.
Damaged(http) ==
  { [http EXCEPT !.status = 502],
    [http EXCEPT !.protocol = FALSE],
    [http EXCEPT !.kid = None],
    [http EXCEPT !.body.form = "garbled"],
    [http EXCEPT !.body.signer = OtherKey, !.body.payload.token = newest + 1],
    [http EXCEPT !.signed = "false", !.body.form = "undecodable"] }

Genuine(b) == {r.http : r \in {x \in replies : x.conn = Connection(b)}}

Arriving(b) ==
  {r.http : r \in replies}
    \cup UNION {Damaged(r.http) : r \in {x \in replies : x.conn = Connection(b)}}

\* The thread leaves the exchange.
HangsUp(b) ==
  /\ pc' = [pc EXCEPT ![b] = "idle"]
  /\ challenge' = [challenge EXCEPT ![b] = 0]
  /\ attempt' = [attempt EXCEPT ![b] = 0]
  /\ sentAt' = [sentAt EXCEPT ![b] = 0]

ClientNow == now + Offset

-----------------------------------------------------------------------------
(* _authenticate                                                           *)

InitAsk(b) ==
  /\ pc[b] = "idle" /\ challenges = 0
  /\ Ask(b, "init", None)
  /\ UNCHANGED <<now, sessionVars, replies, serverVars, spent, excused, escaped>>

\* The response authenticates, its token has the right prefix, and the hash is
\* that of the identity that was sent.
Authenticates(http, c) ==
  /\ TransportOk(http)
  /\ VerifySigned(Config, http, c, ClientNow) = "verified"
  /\ LET payload == http.body.payload
     IN payload.authed /\ payload.token # None /\ IsInitToken(payload.token) /\ payload.identity

InitAccepted(b) ==
  /\ pc[b] = "init"
  /\ \E http \in Arriving(b) :
       /\ Authenticates(http, challenge[b])
       /\ token' = http.body.payload.token
  /\ alive' = TRUE
  /\ HangsUp(b)
  /\ UNCHANGED <<now, lock, networkVars, serverVars, historyVars>>

\* Nothing is retried: _authenticate raises, or returns the denial.
InitFails(b) ==
  /\ pc[b] = "init"
  /\ HangsUp(b)
  /\ UNCHANGED <<now, sessionVars, networkVars, serverVars, historyVars>>

-----------------------------------------------------------------------------
(* _heartbeat_once, under _request_lock                                    *)

\* Mutant: heartbeats do not exclude each other.
AcquireAnyway(b) == lock' = b

\* Mutant: the lock is kept.
ReleaseForgets(b) == UNCHANGED lock

Acquire(b) == lock = Nobody /\ lock' = b
Release(b) == lock' = Nobody

\* With the session not alive the call raises at once: no step.
BeatAsk(b) ==
  /\ pc[b] = "idle" /\ alive
  /\ Acquire(b)
  /\ Ask(b, "beat", token)
  /\ spent' = spent \cup {<<token, challenges'>>}
  /\ UNCHANGED <<now, alive, token, replies, serverVars, excused, escaped>>

\* Mutant: the repeated request has a challenge of its own.
RetryAfresh(b) ==
  /\ pc[b] = "beat" /\ attempt[b] = 1
  /\ challenges < MaxChallenges /\ challenges' = challenges + 1
  /\ challenge' = [challenge EXCEPT ![b] = challenges']
  /\ attempt' = [attempt EXCEPT ![b] = 2]
  /\ sentAt' = [sentAt EXCEPT ![b] = now]
  /\ requests' = requests \cup {Request(b, "beat", challenges', 2, token)}
  /\ UNCHANGED <<now, sessionVars, pc, replies, serverVars, spent, excused, escaped>>

\* Mutant: the repetition is repeated.
RetriesForever(b) ==
  /\ pc[b] = "beat" /\ attempt[b] = 1
  /\ sentAt' = [sentAt EXCEPT ![b] = IF @ = now THEN 0 ELSE now]
  /\ UNCHANGED <<now, sessionVars, pc, attempt, challenge, networkVars, serverVars, historyVars>>

\* The first exchange raised: a timeout, a lost connection.  The exact token
\* and challenge are sent once more.
Retry(b) ==
  /\ pc[b] = "beat" /\ attempt[b] = 1
  /\ attempt' = [attempt EXCEPT ![b] = 2]
  /\ sentAt' = [sentAt EXCEPT ![b] = now]
  /\ requests' = requests \cup {Request(b, "beat", challenge[b], 2, token)}
  /\ UNCHANGED <<now, sessionVars, pc, challenge, replies, serverVars, historyVars>>

\* fail(): the session is dead.
Fail == alive' = FALSE

\* The second exchange raised as well.
BeatLost(b) ==
  /\ pc[b] = "beat" /\ attempt[b] = 2
  /\ Fail /\ excused' = TRUE
  /\ Release(b) /\ HangsUp(b)
  /\ UNCHANGED <<now, token, networkVars, serverVars, challenges, spent, escaped>>

\* verify_signed and, for an unsigned response, parse_unsigned.
Judge(http, c) ==
  LET verdict == VerifySigned(Config, http, c, ClientNow)
  IN IF verdict = "UNSIGNED_RESPONSE" THEN ParseUnsigned(Config, http, c, ClientNow) ELSE verdict

\* Mutant: an outdated program goes on with what its heartbeat was given.
RotatesIfAuthed(http, c) ==
  /\ TransportOk(http)
  /\ Judge(http, c) = "verified"
  /\ LET payload == http.body.payload
     IN payload.authed /\ payload.token # None /\ IsRotatedToken(payload.token)

Rotates(http, c) ==
  /\ TransportOk(http)
  /\ Judge(http, c) = "verified"
  /\ LET payload == http.body.payload
     IN /\ payload.code = "OK" /\ payload.authed
        /\ payload.token # None /\ IsRotatedToken(payload.token)

Escapes(http, c) == TransportOk(http) /\ Judge(http, c) = Escaped

BeatAccepted(b) ==
  /\ pc[b] = "beat"
  /\ \E http \in Arriving(b) :
       /\ Rotates(http, challenge[b])
       /\ token' = http.body.payload.token
  /\ Release(b) /\ HangsUp(b)
  /\ UNCHANGED <<now, alive, networkVars, serverVars, historyVars>>

\* Every other end is a fail(): an HTTP status, a failed verification, a denial,
\* a malformed token.
BeatFails(b) ==
  /\ pc[b] = "beat"
  /\ \E http \in Arriving(b) :
       /\ ~Rotates(http, challenge[b]) /\ ~Escapes(http, challenge[b])
       /\ excused' = (excused \/ http \notin Genuine(b))
  /\ Fail
  /\ Release(b) /\ HangsUp(b)
  /\ UNCHANGED <<now, token, networkVars, serverVars, challenges, spent, escaped>>

\* The exception is no BedrockError: nobody calls fail().
BeatEscapes(b) ==
  /\ pc[b] = "beat"
  /\ \E http \in Arriving(b) : Escapes(http, challenge[b])
  /\ escaped' = TRUE /\ excused' = TRUE
  /\ Release(b) /\ HangsUp(b)
  /\ UNCHANGED <<now, alive, token, networkVars, serverVars, challenges, spent>>

\* stop(), at any time.
Stop ==
  /\ alive
  /\ Fail /\ excused' = TRUE
  /\ UNCHANGED <<now, token, lock, threadVars, networkVars, serverVars, challenges, spent, escaped>>

-----------------------------------------------------------------------------
(* The server                                                              *)

Payload(code, t, c, time) ==
  [typed |-> TRUE, protocol |-> TRUE, kid |-> ServerKid, system |-> Config.system, code |-> code,
   authed |-> ExpectedAuthenticated(code), is_error |-> ExpectedError(code),
   is_failure |-> ExpectedFailure(code), challenge |-> c, server_time |-> time, token |-> t,
   terminated |-> code = "SIGNING_KEY_REVOKED", identity |-> TRUE]

Signed(payload) ==
  [status |-> 200, protocol |-> TRUE, signed |-> "true", kid |-> ServerKid,
   body |-> [form |-> "signed", signer |-> Config.key, payload |-> payload]]

Unsigned(payload) ==
  [status |-> 200, protocol |-> TRUE, signed |-> "false", kid |-> None,
   body |-> [form |-> "plain", signer |-> None, payload |-> payload]]

Reply(m, http) == replies' = replies \cup {[conn |-> m.conn, http |-> http]}

Issues(m) ==
  \/ m.kind = "init" /\ newest = 0
  \/ m.kind = "beat" /\ m.token = newest

\* The request is in order: a token is issued, by an initialization also to an
\* outdated program.  A server without an active signing key answers unsigned,
\* and serves the session no longer.
ServerIssues(m) ==
  /\ open /\ Issues(m)
  /\ newest' = newest + 1
  /\ cache' = [token |-> newest', challenge |-> m.conn.challenge, time |-> Seconds(now)]
  /\ \E code \in IF m.kind = "init" THEN {"OK", "OUTDATED"} ELSE {"OK"}, signing \in BOOLEAN :
       LET payload == Payload(code, newest', m.conn.challenge, Seconds(now))
       IN /\ Reply(m, IF signing THEN Signed(payload) ELSE Unsigned(payload))
          /\ open' = signing

\* The request was served before.
ServerRepeats(m) ==
  /\ open /\ m.kind = "beat" /\ ~Issues(m) /\ cache # None /\ m.conn.challenge = cache.challenge
  /\ Reply(m, Signed(Payload("OK", cache.token, cache.challenge, cache.time)))
  /\ UNCHANGED serverVars

\* A request that does not fit, or a session that is over.
ServerDenies(m) ==
  /\ \/ ~open
     \/ ~Issues(m) /\ ~(cache # None /\ m.conn.challenge = cache.challenge)
  /\ Reply(m, Signed(Payload("INVALID_SESSION", None, m.conn.challenge, Seconds(now))))
  /\ UNCHANGED serverVars

\* The server ends the session: by a denial, by revoking its key, or because the
\* program has become outdated.
ServerEnds(m) ==
  /\ open /\ open' = FALSE
  /\ \E code \in {"SESSION_TERMINATED", "SIGNING_KEY_REVOKED"}
                  \cup (IF m.kind = "beat" THEN {"OUTDATED"} ELSE {}) :
       LET t == IF code = "OUTDATED" THEN newest + 1 ELSE None
           payload == Payload(code, t, m.conn.challenge, Seconds(now))
       IN Reply(m, IF code = "SIGNING_KEY_REVOKED" THEN Unsigned(payload) ELSE Signed(payload))
  /\ UNCHANGED <<newest, cache>>

Serves(m) ==
  /\ ServerIssues(m) \/ ServerRepeats(m) \/ ServerDenies(m) \/ ServerEnds(m)
  /\ requests' = requests \ {m}
  /\ UNCHANGED <<now, sessionVars, threadVars, historyVars>>

\* Time passes, but no exchange lasts longer than Timeout.
Tick ==
  /\ now < MaxTime /\ now' = now + 1
  /\ \A b \in Beaters : pc[b] # "idle" => now - sentAt[b] < Timeout
  /\ UNCHANGED <<sessionVars, threadVars, networkVars, serverVars, historyVars>>

Beater(b) ==
  \/ InitAsk(b) \/ InitAccepted(b) \/ InitFails(b)
  \/ BeatAsk(b) \/ Retry(b) \/ BeatLost(b) \/ BeatAccepted(b) \/ BeatFails(b) \/ BeatEscapes(b)

Next == (\E b \in Beaters : Beater(b)) \/ (\E m \in requests : Serves(m)) \/ Stop \/ Tick

Spec == Init /\ [][Next]_vars

-----------------------------------------------------------------------------
(* Properties                                                              *)

Tokens == 0 .. MaxChallenges

TypeOK ==
  /\ now \in 0 .. MaxTime
  /\ alive \in BOOLEAN /\ token \in Tokens \cup {None} /\ lock \in Beaters \cup {Nobody}
  /\ pc \in [Beaters -> {"idle", "init", "beat"}]
  /\ attempt \in [Beaters -> 0 .. 2] /\ challenge \in [Beaters -> 0 .. MaxChallenges]
  /\ sentAt \in [Beaters -> 0 .. MaxTime]
  /\ newest \in Tokens /\ open \in BOOLEAN
  /\ challenges \in 0 .. MaxChallenges
  /\ spent \subseteq Tokens \X (1 .. MaxChallenges)
  /\ {excused, escaped} \subseteq BOOLEAN
  /\ alive => token # None
  /\ \A b \in Beaters : pc[b] = "beat" <=> lock = b

\* "every heartbeat rotates to a BRF_ token": between heartbeats client and server
\* agree on the token, whatever was lost, late or repeated before; a client that
\* cannot know which token the server holds has ended its session.
InStep == alive /\ lock = Nobody /\ ~escaped => token = newest

\* "Repeat the exact token/challenge once": no token is ever sent with a second
\* challenge, so the server can tell a repeated heartbeat from a forked session.
TokenSpentOnce ==
  ~escaped => \A x, y \in spent : x[1] = y[1] => x[2] = y[2]

\* "a lost heartbeat response is retried once, idempotently": one loss per
\* heartbeat, of the request or of the response and however late the request arrives,
\* ends no session of a server that goes on serving it, and neither does the freshness
\* check, for all that the cached response is as old as two exchanges.  A body cut
\* short is no loss but damage: read(amt) raises nothing (_read_bounded), nobody retries.
OneLossSurvived == token # None /\ ~alive => excused \/ ~open

\* "Signed responses only": no token comes from a response that was not signed with
\* the pinned key, neither one that the server itself sent without a signature nor one
\* that was altered on its way.
TokenWasSigned ==
  token # None =>
    \E r \in replies :
      r.http.body.form = "signed" /\ r.http.body.signer = Config.key
        /\ r.http.body.payload.token = token

\* A heartbeat ends, whatever the network and the server do.
HeartbeatReturns == \A b \in Beaters : pc[b] = "beat" ~> pc[b] = "idle"

\* An exchange that goes unanswered raises, and what it raises is handled.
Fairness == \A b \in Beaters : WF_vars(Retry(b)) /\ WF_vars(BeatLost(b))

FairSpec == Spec /\ Fairness

\* The session token is a token chain, with the client's token in it while the
\* session is alive.
Chain == INSTANCE TokenChain WITH
  held <- IF token = None THEN None ELSE IF alive THEN token ELSE Nobody,
  Unborn <- None, Ended <- Nobody

ImplementsTokenChain == Chain!Spec
=============================================================================
