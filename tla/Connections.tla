---------------------------- MODULE Connections ----------------------------
(***************************************************************************)
(* Credentials of one OAuth connection of app-connectors: what operators   *)
(* enter, the authorization session, and the calls that await the provider *)
(* (refreshes, code exchanges, connection tests) and then write to the     *)
(* store what they were told.                                              *)
(*                                                                         *)
(* A handler is one step up to the await of a fetch and one step after it. *)
(* The provider carries out a request it has received whether or not its   *)
(* answer arrives within the eight seconds of fetchToken.                  *)
(***************************************************************************)
EXTENDS Integers

CONSTANTS
    Calls,       \* calls that may be in progress at once
    Rotates,     \* whether a refresh replaces the refresh token
    WithIngest,  \* whether ingest credentials are issued for the connection
    MaxActs,     \* bound on what operators enter
    MaxSessions, \* bound on the authorization sessions
    MaxTokens    \* bound on the tokens the provider issues

ASSUME ConnectionsAssumption ==
    /\ {Rotates, WithIngest} \subseteq BOOLEAN
    /\ MaxActs \in Nat \ {0} /\ {MaxSessions, MaxTokens} \subseteq Nat

VARIABLES
    conn,     \* the row of the connection
    latest,   \* the secret of latestSecretRefByConnection
    attached, \* the secret that secretRef of the row was last set to
    session,  \* authorizationSessions at the connection, 0 for none
    sessions, \* sessions started so far
    calls,    \* calls in progress
    expired,  \* tokens whose expiresAt is past
    issued,   \* provider: tokens issued
    live,     \* provider: the refresh tokens it accepts, by token and origin
    redeemed, \* provider: sessions whose code has been exchanged
    acts,     \* history: what operators have entered, numbered
    newest,   \* history: the last of it that was stored
    overtaken,\* history: newest was stored with a call at the provider
    lost,     \* history: tokens refreshed by an answer that did not arrive
    lapsed    \* history: the last session expired

outside == <<issued, live, redeemed>>
history == <<acts, newest, overtaken, lost, lapsed>>
vars == <<conn, latest, attached, session, sessions, calls, expired, outside,
          history>>

\* from is the number of the operator's act that the secret descends from,
\* renews whether it holds a refresh token.
Secret == [ kind : {"oauth2_client", "oauth2_token", "ingest_client"},
            from : 0 .. MaxActs,
            token : 0 .. MaxTokens,
            renews : BOOLEAN ]

Client(act) == [ kind |-> "oauth2_client", from |-> act, token |-> 0,
                 renews |-> FALSE ]

Token(act, n, renews) == [ kind |-> "oauth2_token", from |-> act, token |-> n,
                           renews |-> renews ]

IngestClient == [ kind |-> "ingest_client", from |-> 0, token |-> 0,
                  renews |-> FALSE ]

NoSecret == [ kind |-> "none", from |-> 0, token |-> 0, renews |-> FALSE ]

Idle == [ op |-> "none", at |-> "idle", using |-> NoSecret, session |-> 0,
          act |-> 0, got |-> 0, renews |-> FALSE ]

Call == [ op : {"none", "test", "access", "code"},
          at : {"idle", "asked", "answered", "probe"},
          using : Secret \cup {NoSecret}, \* the secret read before the await
          session : 0 .. MaxSessions,
          act : 0 .. MaxActs,       \* of a code
          got : 0 .. MaxTokens,     \* the token in the answer
          renews : BOOLEAN ]

TypeOK ==
    /\ conn \in [ status : {"pending", "active", "disabled"},
                  auth : {"not_started", "awaiting", "authorized"},
                  secretRef : BOOLEAN ]
    /\ {latest, attached} \subseteq Secret \cup {NoSecret}
    /\ attached.kind # "ingest_client"
    /\ attached # NoSecret => conn.secretRef
    /\ session \in 0 .. sessions
    /\ sessions \in 0 .. MaxSessions
    /\ calls \in [Calls -> Call]
    /\ expired \subseteq 1 .. issued
    /\ issued \in 0 .. MaxTokens
    /\ live \subseteq [token : 1 .. issued, from : 1 .. acts]
    /\ redeemed \subseteq 1 .. sessions
    /\ acts \in 0 .. MaxActs
    /\ newest \in 0 .. acts
    /\ overtaken \in BOOLEAN
    /\ lost \subseteq 1 .. issued
    /\ lapsed \in BOOLEAN

-----------------------------------------------------------------------------
(* The store of secrets *)

\* Calls that will store a token if their answer arrives.
AtProvider == {k \in Calls : calls[k].at \in {"asked", "answered"}}

\* Seeded fault: the reference to the latest secret is set only once.
PutSecretOnce(secret) == latest' = IF latest = NoSecret THEN secret ELSE latest

\* putSecret, of whatever kind.
PutSecret(secret) == latest' = secret

\* Seeded fault: a secret leaves the state of the authorization alone.
StoreSecretOnly(secret, auth) ==
    /\ PutSecret(secret)
    /\ attached' = secret
    /\ conn' = [conn EXCEPT !.secretRef = TRUE]

StoreSecret(secret, auth) ==
    /\ PutSecret(secret)
    /\ attached' = secret
    /\ conn' = [conn EXCEPT !.secretRef = TRUE, !.auth = auth]

\* The operator's act is stored while the calls in others are in progress.
Entered(act, others) ==
    /\ newest' = act
    /\ overtaken' = (others # {})

-----------------------------------------------------------------------------
(* Operators *)

\* updateConnection, as far as the status goes.
SetStatus(status) ==
    /\ conn' = [conn EXCEPT !.status = status]
    /\ UNCHANGED <<latest, attached, session, sessions, calls, expired, outside, history>>

\* startAuthorization, with the credentials of a client or with those stored.
StartAuthorization(withClient) ==
    /\ sessions < MaxSessions
    /\ sessions' = sessions + 1
    /\ session' = sessions + 1
    /\ lapsed' = FALSE
    /\ \/ /\ withClient /\ acts < MaxActs
          /\ acts' = acts + 1
          /\ StoreSecret(Client(acts + 1), "awaiting")
          /\ Entered(acts + 1, AtProvider)
       \/ /\ ~withClient /\ latest # NoSecret
          /\ conn' = [conn EXCEPT !.auth = "awaiting"]
          /\ UNCHANGED <<latest, attached, acts, newest, overtaken>>
    /\ UNCHANGED <<calls, expired, outside, lost>>

\* completeOAuthCredentialAuthorization.
CompleteWithCredentials ==
    /\ acts < MaxActs
    /\ acts' = acts + 1
    /\ StoreSecret(Client(acts + 1), "authorized")
    /\ Entered(acts + 1, AtProvider)
    /\ session' = 0
    /\ UNCHANGED <<sessions, calls, expired, outside, lost, lapsed>>

\* getActiveAuthorizationSession past expiresAt.
FindSessionExpired ==
    /\ session # 0
    /\ session' = 0
    /\ lapsed' = TRUE
    /\ UNCHANGED <<conn, latest, attached, sessions, calls, expired, outside, acts, newest,
                   overtaken, lost>>

\* completeOAuthCodeAuthorization up to the exchange of the code.
BeginCode(k) ==
    /\ calls[k] = Idle
    /\ session # 0
    /\ acts < MaxActs
    /\ acts' = acts + 1
    /\ calls' = [calls EXCEPT ![k] =
           [Idle EXCEPT !.op = "code", !.at = "asked", !.using = latest,
                        !.session = session, !.act = acts + 1]]
    /\ UNCHANGED <<conn, latest, attached, session, sessions, expired, outside, newest,
                   overtaken, lost, lapsed>>

\* Seeded fault: the secret of an ingest credential goes to the row.
IssueAsConnectionSecret ==
    /\ WithIngest
    /\ StoreSecret(IngestClient, conn.auth)
    /\ UNCHANGED <<session, sessions, calls, expired, outside, history>>

\* issueIngestCredential, by way of storeDetachedSecret.
IssueIngestCredential ==
    /\ WithIngest
    /\ PutSecret(IngestClient)
    /\ UNCHANGED <<conn, attached, session, sessions, calls, expired, outside, history>>
-----------------------------------------------------------------------------
(* Tests of the connection and accesses of sync runs *)

\* isReadyForConnectionTest.
ReadyForTest ==
    /\ conn.status # "disabled"
    /\ conn.secretRef
    /\ conn.auth = "authorized"

Fresh(secret) ==
    secret.kind = "oauth2_token" /\ secret.token \notin expired

\* What ensureOAuthAccessToken sends to the provider: a refresh token, or the
\* credentials of the client.  It throws on anything else.
Sendable(secret) ==
    \/ secret.kind = "oauth2_token" /\ ~Fresh(secret) /\ secret.renews
    \/ secret.kind = "oauth2_client"

\* testConnection and getProviderRuntimeAccessContext up to their first await;
\* an access that finds a fresh token changes nothing.
Begin(k, op) ==
    /\ calls[k] = Idle
    /\ IF op = "test" THEN ReadyForTest ELSE conn.status # "disabled"
    /\ latest # NoSecret
    /\ \/ /\ Sendable(latest)
          /\ calls' = [calls EXCEPT ![k] =
                 [Idle EXCEPT !.op = op, !.at = "asked", !.using = latest]]
       \/ /\ Fresh(latest) /\ op = "test"
          /\ calls' = [calls EXCEPT ![k] =
                 [Idle EXCEPT !.op = op, !.at = "probe", !.using = latest]]
    /\ UNCHANGED <<conn, latest, attached, session, sessions, expired, outside, history>>

\* The operator's act that the token of call c descends from.
Origin(c) == IF c.op = "code" THEN c.act ELSE c.using.from

\* Seeded fault: a refresh keeps the refresh token it has used.
ObtainedOld(c) ==
    IF c.op # "code" /\ c.using.kind = "oauth2_token"
    THEN [c.using EXCEPT !.renews = TRUE]
    ELSE Token(Origin(c), c.got, c.renews)

\* The payload that is stored after the provider's answer.
Obtained(c) == Token(Origin(c), c.got, c.renews)

\* The answer of the provider arrives: storeSecret, and what follows it.
Receive(k) ==
    LET c == calls[k] IN
    /\ c.at = "answered"
    /\ StoreSecret(Obtained(c), "authorized")
    /\ session' = IF c.op = "code" THEN 0 ELSE session
    /\ IF c.op = "code" /\ c.act > newest
       THEN Entered(c.act, AtProvider \ {k})
       ELSE UNCHANGED <<newest, overtaken>>
    /\ calls' = [calls EXCEPT ![k] =
           IF c.op = "test"
           THEN [Idle EXCEPT !.op = "test", !.at = "probe", !.using = Obtained(c)]
           ELSE Idle]
    /\ UNCHANGED <<sessions, expired, outside, acts, lost, lapsed>>

\* The end of testConnection, whatever has become of the row.
ProbePasses(k) ==
    /\ calls[k].at = "probe"
    /\ calls' = [calls EXCEPT ![k] = Idle]
    /\ conn' = [conn EXCEPT !.status = "active", !.auth = "authorized"]
    /\ UNCHANGED <<latest, attached, session, sessions, expired, outside, history>>

\* The provider refuses, cannot be reached, or the probe fails.
Fails(k) ==
    /\ calls[k].at \in {"asked", "probe"}
    /\ calls' = [calls EXCEPT ![k] = Idle]
    /\ UNCHANGED <<conn, latest, attached, session, sessions, expired, outside, history>>

\* The timeout of fetchToken aborts a request that was carried out.
LoseAnswer(k) ==
    LET c == calls[k] IN
    /\ c.at = "answered"
    /\ calls' = [calls EXCEPT ![k] = Idle]
    /\ lost' = IF c.op = "code" THEN lost ELSE lost \cup ({c.using.token} \ {0})
    /\ UNCHANGED <<conn, latest, attached, session, sessions, expired, outside, acts, newest,
                   overtaken, lapsed>>
-----------------------------------------------------------------------------
(* The provider, and time *)

Accepted(n) == \E g \in live : g.token = n

\* A code is exchanged once, a refresh token is accepted while it is live, and
\* the grant of a client comes without a refresh token.
Grant(k) ==
    LET c == calls[k]
        refresh == c.op # "code" /\ c.using.kind = "oauth2_token"
        renews == c.op = "code" \/ (refresh /\ Rotates)
    IN
    /\ c.at = "asked"
    /\ issued < MaxTokens
    /\ refresh => Accepted(c.using.token)
    /\ c.op = "code" => c.session \notin redeemed /\ c.using.kind # "ingest_client"
    /\ issued' = issued + 1
    /\ live' = (IF refresh /\ Rotates THEN {g \in live : g.token # c.using.token}
              ELSE live)
             \cup (IF renews THEN {[token |-> issued + 1, from |-> Origin(c)]}
                  ELSE {})
    /\ redeemed' = IF c.op = "code" THEN redeemed \cup {c.session} ELSE redeemed
    /\ calls' = [calls EXCEPT ![k] =
           [c EXCEPT !.at = "answered", !.got = issued + 1, !.renews = renews]]
    /\ UNCHANGED <<conn, latest, attached, session, sessions, expired, history>>

\* isExpired.
Expire(n) ==
    /\ n \in 1 .. issued \ expired
    /\ expired' = expired \cup {n}
    /\ UNCHANGED <<conn, latest, attached, session, sessions, calls, outside, history>>
-----------------------------------------------------------------------------
\* createConnection without credentials, with a client's, or with a secretRef
\* of the caller's.
Init ==
    /\ \/ /\ latest = NoSecret /\ acts = 0
          /\ \E ref \in BOOLEAN :
                conn = [ status |-> "pending", secretRef |-> ref,
                         auth |-> IF ref THEN "authorized" ELSE "not_started" ]
       \/ /\ latest = Client(1) /\ acts = 1
          /\ conn = [ status |-> "pending", secretRef |-> TRUE,
                      auth |-> "not_started" ]
    /\ attached = latest
    /\ newest = acts
    /\ session = 0 /\ sessions = 0
    /\ calls = [k \in Calls |-> Idle]
    /\ expired = {} /\ issued = 0 /\ live = {} /\ redeemed = {}
    /\ overtaken = FALSE /\ lost = {} /\ lapsed = FALSE

Next ==
    \/ \E status \in {"pending", "active", "disabled"} : SetStatus(status)
    \/ \E withClient \in BOOLEAN : StartAuthorization(withClient)
    \/ CompleteWithCredentials
    \/ FindSessionExpired
    \/ IssueIngestCredential
    \/ \E n \in 1 .. MaxTokens : Expire(n)
    \/ \E k \in Calls :
          \/ BeginCode(k)
          \/ \E op \in {"test", "access"} : Begin(k, op)
          \/ Grant(k) \/ Receive(k) \/ LoseAnswer(k)
          \/ ProbePasses(k) \/ Fails(k)

Spec == Init /\ [][Next]_vars
-----------------------------------------------------------------------------
(* Properties *)

\* The credentials in use descend from what an operator entered last, unless a
\* call was at the provider at that moment: its answer, to older credentials,
\* is stored over them (storeSecret after the awaits of
\* ensureOAuthAccessToken and completeOAuthCodeAuthorization).
NewestEntryIsUsed ==
    (~overtaken /\ latest.kind # "ingest_client") => latest.from = newest

\* An operator who is told to finish an authorization has a session to finish,
\* unless it expired: completions, refreshes and tests that end in between
\* never take the session without ending the wait (authorizationState and
\* authorizationSessions are two places of the store).
AwaitedSessionExists ==
    conn.auth = "awaiting" => session # 0 \/ lapsed

\* The refresh token stored last is one the provider accepts, whoever else
\* refreshes at the same time, unless the answer that replaces it is on its
\* way or was lost.
StoredTokenIsLive ==
    attached.renews =>
        \/ Accepted(attached.token)
        \/ attached.token \in lost
        \/ \E k \in Calls : /\ calls[k].at = "answered"
                            /\ calls[k].using.token = attached.token

=============================================================================
