------------------------------- MODULE SignIn -------------------------------
(***************************************************************************)
(* Connecting an app (integrations/<provider>.rs): the pairing sessions    *)
(* kept between prepare and complete, what each sign-in checks, and the    *)
(* common end of all of them: the credential is put in the store, the row  *)
(* is upserted, and a row that cannot be saved undoes the credential.      *)
(* Two attempts of one provider run side by side.                          *)
(***************************************************************************)
EXTENDS Naturals, Sequences, FiniteSets

CONSTANTS Providers, Calls, Accounts,
          MaxSessions, \* MAX_DEVICE_SESSIONS, MAX_PAIRING_SESSIONS
          MaxFaults    \* bound: store and database failures, quits of the app

VARIABLES provider,
          had,         \* an account is connected when the attempts begin
          flaw,        \* what is wrong with an attempt's answers
          account,     \* that signs in
          target,      \* the connection a reconnect is for
          session,     \* "none", "asking", "open", "held" by a call, "gone"
          cancelled,   \* the session's flag
          stopped,     \* a cancel found the session and the call had not passed its last check
          expired,
          pc,          \* position of the call in its script, 0: no call
          result,
          ref, fresh, prior, paired,
          vault,       \* credentials by reference
          rows,        \* reference of the account's row
          sent,        \* test messages Telegram delivered
          excused,     \* a failed undo, an unreadable prior, a quit, overlapping calls
          grant, reauth, revoked,   \* refresh token of the saved credential
          faults

sessions == <<session, cancelled, stopped, expired>>
saved == <<vault, rows, excused>>
chosen == <<provider, had, flaw, account, target>>
tokens == <<grant, reauth, revoked>>
locals == <<ref, fresh, prior, paired>>
vars == <<chosen, sessions, pc, result, locals, saved, sent, tokens, faults>>

None == "none"
Old == "old"
Refs == Calls \cup {Old}

-----------------------------------------------------------------------------
(* What a sign-in checks: steps, each with the flaws it refuses.           *)

Check(flaws) == <<"check", flaws>>
Step(tag) == <<tag, {}>>
Save == <<Step("look"), Step("put"), Step("upsert")>>

\* load_graph_identity: the id token's object is the signed-in user's.
GraphIdentity == Check({"unreachable", "other user", "no name"})

\* validate_id_token, decoding_key: RS256, a known key, audience, times, nonce, tenant, object, issuer.
IdToken == Check({"no id token", "other algorithm", "unknown key", "other audience", "stale token",
                  "other nonce", "other issuer"})

\* exchange_and_save
MicrosoftScript ==
  <<Step("wait"), Check({"refused code", "no bearer"}), Check({"no offline access"}), IdToken,
    GraphIdentity, Check({"foreign tenant"}), Step("same")>> \o Save

GmailScript ==
  <<Step("wait"), Check({"refused code", "no bearer"}), Check({"no offline access"}),
    Check({"unreachable", "unverified address"})>> \o Save

\* poll_device_authorization, save_authorized_connection
GithubScript ==
  <<Step("poll"), Check({"no bearer"}), Check({"unreachable", "no login"}), Check({"no installation"})>>
    \o Save

\* complete
TelegramScript ==
  <<Step("lock"), Step("pair"), Step("active"), Step("test"), Step("active"), Step("draw"), Step("put"),
    Step("kept"), Step("upsert")>>

\* validate_private_input
SlackInput == Check({"unused app token", "no app token", "bad app token", "bad token", "webhook"})

\* connect_bot, validate_socket_app_token
SlackScript ==
  <<SlackInput, Check({"unreachable", "refused token"}), Check({"missing scope"}), Check({"no identity"}),
    Check({"refused app token"})>> \o Save

NotionScript == <<Check({"bad token"}), Check({"unreachable", "refused token"}), Check({"not a bot", "no workspace"})>>
  \o Save

LinearScript == <<Check({"bad token"}), Check({"unreachable", "refused token"}), Check({"no viewer", "no organization"})>>
  \o Save

SentryScript == <<Check({"bad token"}), Check({"unreachable", "refused token"}), Check({"no organization"}),
                  Check({"missing scope"}), Check({"too much metadata"})>> \o Save

\* validate_new_vault
VaultChecks == Check({"no directory", "no marker", "linked marker", "no name"})
\* connect_vault
ObsidianScript == <<Check({"bad path"}), VaultChecks>> \o Save

\* NativeOAuthAttempt::start: the loopback listener and the authorization address.
ListenerStart == {"bad callback path", "no port", "bad endpoint", "reserved parameter"}

\* prepare_authorization, prepare_device_authorization, prepare: what is refused before a session
\* is kept.
MicrosoftPrepare == {"not configured", "not a Microsoft connection", "bad address"} \cup ListenerStart
GmailPrepare == {"not configured"} \cup ListenerStart
GithubPrepare == {"not configured", "no device code", "bad address", "no lifetime"}
TelegramPrepare == {"bad token", "refused token", "not a bot", "no name", "webhook in use"}

PrepareFlaws(p) ==
  CASE p = "microsoft" -> MicrosoftPrepare [] p = "gmail" -> GmailPrepare [] p = "github" -> GithubPrepare
    [] p = "telegram" -> TelegramPrepare [] OTHER -> {}

Script(p) ==
  CASE p = "microsoft" -> MicrosoftScript [] p = "gmail" -> GmailScript [] p = "github" -> GithubScript
    [] p = "telegram" -> TelegramScript [] p = "slack" -> SlackScript [] p = "notion" -> NotionScript
    [] p = "linear" -> LinearScript [] p = "sentry" -> SentryScript [] p = "obsidian" -> ObsidianScript

Loopback == {"microsoft", "gmail"}
Sessions == Loopback \cup {"github", "telegram"}
Flaws(p) == LET s == Script(p) IN PrepareFlaws(p) \cup UNION {s[i][2] : i \in DOMAIN s}

-----------------------------------------------------------------------------
Init ==
  /\ provider = None /\ had = FALSE
  /\ flaw = [c \in Calls |-> None] /\ account = [c \in Calls |-> None]
  /\ target = [c \in Calls |-> None]
  /\ session = [c \in Calls |-> None] /\ cancelled = [c \in Calls |-> FALSE]
  /\ stopped = [c \in Calls |-> FALSE] /\ expired = [c \in Calls |-> FALSE]
  /\ pc = [c \in Calls |-> 0] /\ result = [c \in Calls |-> None]
  /\ ref = [c \in Calls |-> None] /\ fresh = [c \in Calls |-> FALSE]
  /\ prior = [c \in Calls |-> None] /\ paired = [c \in Calls |-> FALSE]
  /\ vault = [r \in Refs |-> None] /\ rows = [a \in Accounts |-> None]
  /\ sent = [c \in Calls |-> 0] /\ excused = FALSE
  /\ grant = FALSE /\ reauth = FALSE /\ revoked = FALSE /\ faults = 0

\* The world the attempts begin in: an account may be connected already.
Choose(p, a) ==
  /\ provider = None /\ provider' = p
  /\ \/ UNCHANGED <<had, vault, rows, grant>>
     \/ /\ p # "telegram" /\ had' = TRUE /\ grant' = TRUE
        /\ vault' = [vault EXCEPT ![Old] = Old] /\ rows' = [rows EXCEPT ![a] = Old]
  /\ UNCHANGED <<flaw, account, target, sessions, pc, result, locals, excused, sent, reauth, revoked, faults>>

\* The parts of a call's choice that the provider's answers and the user make.
Answers(c, f, a, t) ==
  /\ flaw' = [flaw EXCEPT ![c] = f] /\ account' = [account EXCEPT ![c] = a]
  /\ target' = [target EXCEPT ![c] = t]
  /\ f = None \/ \A k \in Calls : account[k] = None
  /\ \A k \in Calls : flaw[k] = None   \* bound: an attempt with bad answers is the only one
  /\ t = None \/ (provider = "microsoft" /\ t \in Accounts /\ rows[t] # None)
  /\ UNCHANGED <<provider, had>>

\* remove_expired_sessions
Swept == [c \in Calls |-> IF session[c] = "open" /\ expired[c] THEN "gone" ELSE session[c]]
SweptFlags == [c \in Calls |-> cancelled[c] \/ (provider = "telegram" /\ session[c] = "open" /\ expired[c])]

\* connect_private, connect_vault: the whole sign-in is one call without a session.
ConnectPrivate(c, f, a) ==
  /\ provider # None /\ provider \notin Sessions /\ pc[c] = 0 /\ result[c] = None
  /\ Answers(c, f, a, None)
  /\ pc' = [pc EXCEPT ![c] = 1]
  /\ UNCHANGED <<sessions, result, locals, saved, sent, tokens, faults>>

\* prepare: the number of sessions is looked at before the session is made.
Prepare(c, f, a, t) ==
  /\ provider \in Sessions /\ session[c] = None /\ Answers(c, f, a, t)
  /\ provider = "telegram" \/ Cardinality({k \in Calls : Swept[k] = "open"}) < MaxSessions
  /\ provider = "telegram" => \A b \in Accounts : rows[b] = None
  /\ session' = [Swept EXCEPT ![c] = "asking"]
  /\ cancelled' = SweptFlags
  /\ UNCHANGED <<stopped, expired, pc, result, locals, saved, sent, tokens, faults>>

\* The rest of prepare, the requests of GitHub and Telegram included: the session is inserted.
PrepareAnswered(c) ==
  /\ session[c] = "asking"
  /\ IF flaw[c] \in PrepareFlaws(provider)
       THEN session' = [session EXCEPT ![c] = "gone"] /\ result' = [result EXCEPT ![c] = "failed"]
       ELSE session' = [session EXCEPT ![c] = "open"] /\ UNCHANGED result
  /\ UNCHANGED <<chosen, cancelled, stopped, expired, pc, locals, saved, sent, tokens, faults>>

At(c, tag) == pc[c] # 0 /\ Script(provider)[pc[c]][1] = tag

\* Time passes: the session's deadline, and Telegram's timer (expire_session_later).
Expire(c) ==
  /\ session[c] = "open" \/ At(c, "wait")
  /\ ~expired[c] /\ expired' = [expired EXCEPT ![c] = TRUE]
  /\ UNCHANGED <<chosen, session, cancelled, stopped, pc, result, locals, saved, sent, tokens, faults>>
ExpireLater(c) ==
  /\ provider = "telegram" /\ session[c] = "open" /\ expired[c]
  /\ session' = [session EXCEPT ![c] = "gone"] /\ cancelled' = [cancelled EXCEPT ![c] = TRUE]
  /\ UNCHANGED <<chosen, stopped, expired, pc, result, locals, saved, sent, tokens, faults>>

\* Mutant: GitHub's cancel only sets a flag.
CancelFlagging(c) ==
  /\ session[c] = "open"
  /\ cancelled' = [cancelled EXCEPT ![c] = TRUE]
  /\ session' = [session EXCEPT ![c] = IF provider = "telegram" THEN "gone" ELSE @]
  /\ stopped' = [stopped EXCEPT ![c] = @ \/ ~At(c, "upsert")]
  /\ UNCHANGED <<chosen, expired, pc, result, locals, saved, sent, tokens, faults>>

\* cancel: GitHub removes the session; Telegram removes and flags it; Microsoft and Gmail flag it
\* and leave it to complete or to its expiry. A session a call has taken out is not found.
Cancel(c) ==
  /\ session[c] = "open"
  /\ cancelled' = [cancelled EXCEPT ![c] = TRUE]
  /\ session' = [session EXCEPT ![c] = IF provider \in Loopback THEN @ ELSE "gone"]
  /\ stopped' = [stopped EXCEPT ![c] = @ \/ ~At(c, "upsert")]
  /\ UNCHANGED <<chosen, expired, pc, result, locals, saved, sent, tokens, faults>>

\* complete, poll: GitHub, Microsoft and Gmail take the session out of the map.
Complete(c) ==
  /\ provider \in Sessions /\ session[c] = "open" /\ pc[c] = 0
  /\ IF provider = "telegram"
       THEN pc' = [pc EXCEPT ![c] = 1] /\ UNCHANGED <<session, result>>
       ELSE IF expired[c]
              THEN /\ session' = [session EXCEPT ![c] = "gone"]
                   /\ result' = [result EXCEPT ![c] = "failed"] /\ UNCHANGED pc
              ELSE /\ session' = [session EXCEPT ![c] = "held"]
                   /\ pc' = [pc EXCEPT ![c] = 1] /\ UNCHANGED result
  /\ UNCHANGED <<chosen, cancelled, stopped, expired, locals, saved, sent, tokens, faults>>

-----------------------------------------------------------------------------
(* The steps of a call.                                                    *)

Fault == faults < MaxFaults /\ faults' = faults + 1
Active(c) == ~cancelled[c] /\ ~expired[c]

\* The three ways a step ends: the next step, an error after which the session can still be used,
\* and the end of the attempt. What a step does not change is named by the step.
Go(c) == pc' = [pc EXCEPT ![c] = @ + 1] /\ UNCHANGED <<session, result, expired>>
Again(c) ==
  /\ pc' = [pc EXCEPT ![c] = 0] /\ session' = [session EXCEPT ![c] = IF @ = "held" THEN "open" ELSE @]
  /\ UNCHANGED <<result, expired>>
End(c, how) ==
  /\ pc' = [pc EXCEPT ![c] = 0] /\ result' = [result EXCEPT ![c] = how]
  /\ session' = [session EXCEPT ![c] = "gone"] /\ expired' = [expired EXCEPT ![c] = FALSE]

\* What only Look, Put and the undo change.
NothingStored == UNCHANGED <<ref, fresh, prior, saved, faults>>

\* Mutant: the check is skipped.
CheckStepSkipping(c) ==
  /\ At(c, "check") /\ Go(c)
  /\ UNCHANGED <<chosen, cancelled, stopped, paired, sent, tokens>> /\ NothingStored

\* A check of an answer or of the input; a failed one ends the sign-in.
CheckStep(c) ==
  /\ At(c, "check")
  /\ IF flaw[c] \in Script(provider)[pc[c]][2] THEN End(c, "failed") ELSE Go(c)
  /\ UNCHANGED <<chosen, cancelled, stopped, paired, sent, tokens>> /\ NothingStored

\* wait_for_callback_cancellable, accept_callback: the first connection decides, whatever it is.
Callback(c) ==
  /\ At(c, "wait") /\ ~cancelled[c]
  /\ Go(c) \/ End(c, "failed")
  /\ UNCHANGED <<chosen, cancelled, stopped, paired, sent, tokens>> /\ NothingStored

\* Mutant: the wait has no end of its own.
WaitEndsNever(c) ==
  /\ At(c, "wait") /\ cancelled[c] /\ End(c, "failed")
  /\ UNCHANGED <<chosen, cancelled, stopped, paired, sent, tokens>> /\ NothingStored

\* The loop of the wait sees the flag, or its timeout.
WaitEnds(c) ==
  /\ At(c, "wait") /\ (cancelled[c] \/ expired[c]) /\ End(c, "failed")
  /\ UNCHANGED <<chosen, cancelled, stopped, paired, sent, tokens>> /\ NothingStored

\* The token request of a device poll: "not yet" and a failed request put the session back
\* (reinsert_session), a token goes on, everything else ends the sign-in.
Poll(c) ==
  /\ At(c, "poll") /\ (Go(c) \/ Again(c) \/ End(c, "failed"))
  /\ UNCHANGED <<chosen, cancelled, stopped, paired, sent, tokens>> /\ NothingStored

\* Mutant: completions do not wait for each other.
LockNever(c) ==
  /\ At(c, "lock")
  /\ IF \E b \in Accounts : rows[b] # None
       THEN Again(c)
       ELSE IF session[c] = "open" /\ Active(c) THEN Go(c) ELSE End(c, "failed")
  /\ UNCHANGED <<chosen, cancelled, stopped, paired, sent, tokens>> /\ NothingStored

\* connect_lock, ensure_no_telegram_connection, session: one completion at a time.
Lock(c) ==
  /\ At(c, "lock") /\ \A k \in Calls \ {c} : pc[k] < 2
  /\ IF \E b \in Accounts : rows[b] # None
       THEN Again(c)
       ELSE IF session[c] = "open" /\ Active(c) THEN Go(c) ELSE End(c, "failed")
  /\ UNCHANGED <<chosen, cancelled, stopped, paired, sent, tokens>> /\ NothingStored

\* resolve_pairing: the chat is remembered; nothing found may be tried again, two matches or a
\* group end the session.
Pair(c) ==
  /\ At(c, "pair")
  /\ \/ paired[c] /\ Go(c) /\ UNCHANGED paired
     \/ ~paired[c] /\ Active(c) /\ Go(c) /\ paired' = [paired EXCEPT ![c] = TRUE]
     \/ ~paired[c] /\ Again(c) /\ UNCHANGED paired
     \/ ~paired[c] /\ Active(c) /\ End(c, "failed") /\ UNCHANGED paired
  /\ UNCHANGED <<chosen, cancelled, stopped, sent, tokens>> /\ NothingStored

\* session_is_active
StillActive(c) ==
  /\ At(c, "active") /\ IF Active(c) THEN Go(c) ELSE End(c, "failed")
  /\ UNCHANGED <<chosen, cancelled, stopped, paired, sent, tokens>> /\ NothingStored

\* Mutant: an answer that never came counts as a failed send.
TestSendRetried(c) ==
  /\ At(c, "test") /\ sent[c] < 3
  /\ \/ Go(c) /\ sent' = [sent EXCEPT ![c] = @ + 1]
     \/ Again(c) /\ UNCHANGED sent
     \/ Again(c) /\ sent' = [sent EXCEPT ![c] = @ + 1]
  /\ UNCHANGED <<chosen, cancelled, stopped, paired, tokens>> /\ NothingStored

\* send_message: delivered, refused (the session stays), or unknown (the session ends).
TestSend(c) ==
  /\ At(c, "test")
  /\ \/ Go(c) /\ sent' = [sent EXCEPT ![c] = @ + 1]
     \/ Again(c) /\ UNCHANGED sent
     \/ End(c, "failed") /\ (UNCHANGED sent \/ sent' = [sent EXCEPT ![c] = @ + 1])
  /\ UNCHANGED <<chosen, cancelled, stopped, paired, tokens>> /\ NothingStored

\* The reconnect is for the account that signed in.
Same(c) ==
  /\ At(c, "same") /\ IF target[c] \in {None, account[c]} THEN Go(c) ELSE End(c, "failed")
  /\ UNCHANGED <<chosen, cancelled, stopped, paired, sent, tokens>> /\ NothingStored

\* get_app_connection_by_identity: the row's reference, with what it holds now, or a new one.
Look(c) ==
  /\ At(c, "look") /\ Go(c)
  /\ LET r == rows[account[c]] IN
       /\ ref' = [ref EXCEPT ![c] = IF r = None THEN c ELSE r]
       /\ fresh' = [fresh EXCEPT ![c] = r = None]
       /\ \/ prior' = [prior EXCEPT ![c] = IF r = None THEN None ELSE vault[r]] /\ UNCHANGED faults
          \/ r # None /\ Fault /\ prior' = [prior EXCEPT ![c] = None]
  /\ excused' = (excused \/ faults' # faults
                   \/ \E k \in Calls \ {c} : ref[k] # None /\ account[k] = account[c])
  /\ UNCHANGED <<chosen, cancelled, stopped, paired, vault, rows, sent, tokens>>

\* Telegram draws a reference without looking: it has no connection to come back to.
Draw(c) ==
  /\ At(c, "draw") /\ Go(c)
  /\ ref' = [ref EXCEPT ![c] = c] /\ fresh' = [fresh EXCEPT ![c] = TRUE]
  /\ UNCHANGED <<chosen, cancelled, stopped, prior, paired, saved, sent, tokens, faults>>

Forget(c) ==
  /\ ref' = [ref EXCEPT ![c] = None] /\ fresh' = [fresh EXCEPT ![c] = FALSE]
  /\ prior' = [prior EXCEPT ![c] = None]
Failed(c) == Forget(c) /\ IF provider = "telegram" THEN Again(c) ELSE End(c, "failed")

\* TokenStore::put
Put(c) ==
  /\ At(c, "put")
  /\ \/ Go(c) /\ vault' = [vault EXCEPT ![ref[c]] = c] /\ UNCHANGED <<ref, fresh, prior, faults>>
     \/ Fault /\ Failed(c) /\ UNCHANGED vault
  /\ UNCHANGED <<chosen, cancelled, stopped, paired, rows, excused, sent, tokens>>

\* Mutant: the stored credential stays.
KeptForgetting(c) ==
  /\ At(c, "kept")
  /\ IF Active(c) THEN Go(c) /\ UNCHANGED <<ref, fresh, prior>> ELSE End(c, "failed") /\ Forget(c)
  /\ UNCHANGED <<chosen, cancelled, stopped, paired, saved, sent, tokens, faults>>

\* Telegram's session ended while the credential was stored: it is deleted, once.
Kept(c) ==
  /\ At(c, "kept")
  /\ IF Active(c)
       THEN Go(c) /\ UNCHANGED <<ref, fresh, prior, vault, excused, faults>>
       ELSE /\ End(c, "failed") /\ Forget(c)
            /\ \/ vault' = [vault EXCEPT ![ref[c]] = None] /\ UNCHANGED <<excused, faults>>
               \/ Fault /\ excused' = TRUE /\ UNCHANGED vault
  /\ UNCHANGED <<chosen, cancelled, stopped, paired, rows, sent, tokens>>

\* upsert_app_connection: an existing row keeps its own reference.
UpsertStep(c) ==
  /\ At(c, "upsert") /\ End(c, "connected") /\ Forget(c)
  /\ rows' = [rows EXCEPT ![account[c]] = IF @ = None THEN ref[c] ELSE @]
  /\ grant' = TRUE /\ reauth' = FALSE /\ revoked' = FALSE
  /\ UNCHANGED <<chosen, cancelled, stopped, paired, vault, excused, sent, faults>>

\* Mutant: whatever the reference, it is deleted.
UpsertFailsDeleting(c) ==
  /\ At(c, "upsert") /\ Fault /\ Failed(c) /\ vault' = [vault EXCEPT ![ref[c]] = None]
  /\ UNCHANGED <<chosen, cancelled, stopped, paired, rows, excused, sent, tokens>>

\* The row cannot be saved: a new credential is deleted, an earlier one put back if it was read;
\* a failure of that is ignored.
UpsertFails(c) ==
  /\ At(c, "upsert") /\ Failed(c)
  /\ \/ /\ fresh[c] \/ prior[c] # None
        /\ Fault /\ vault' = [vault EXCEPT ![ref[c]] = prior[c]] /\ UNCHANGED excused
     \/ /\ fresh[c] \/ prior[c] # None
        /\ faults + 1 < MaxFaults /\ faults' = faults + 2 /\ excused' = TRUE /\ UNCHANGED vault
     \/ ~fresh[c] /\ prior[c] = None /\ Fault /\ UNCHANGED <<vault, excused>>
  /\ UNCHANGED <<chosen, cancelled, stopped, paired, rows, sent, tokens>>

\* The app quits: sessions and calls are gone, the store and the rows stay.
Quit ==
  /\ provider # None /\ Fault /\ excused' = TRUE
  /\ session' = [c \in Calls |-> "gone"] /\ pc' = [c \in Calls |-> 0]
  /\ result' = [c \in Calls |-> IF result[c] = None THEN "failed" ELSE result[c]]
  /\ expired' = [c \in Calls |-> FALSE]
  /\ UNCHANGED <<chosen, cancelled, stopped, locals, vault, rows, sent, tokens>>

-----------------------------------------------------------------------------
(* Refreshing what was saved (the providers' RefreshHandler).              *)

Refreshing == {"github", "gmail", "microsoft"}

\* Mutant: the credential keeps only what the answer brought.
KeepsGrantNever(p, rotated) == rotated

\* The refresh token after an answer: GitHub and Gmail keep only the answer's own, Microsoft
\* keeps the one it used when the answer brings none.
KeepsGrant(p, rotated) == rotated \/ p = "microsoft"

\* needs_refresh, refresh: without a refresh token, or on a refusal, the connection needs a sign-in.
Refresh ==
  /\ provider \in Refreshing /\ (\E a \in Accounts : rows[a] # None) /\ ~reauth
  /\ \A c \in Calls : pc[c] = 0
  /\ IF ~grant
       THEN reauth' = TRUE /\ UNCHANGED <<grant, revoked>>
       ELSE \/ \E rotated \in BOOLEAN : grant' = KeepsGrant(provider, rotated) /\ UNCHANGED <<reauth, revoked>>
            \/ reauth' = TRUE /\ revoked' = TRUE /\ UNCHANGED grant   \* the provider refuses
  /\ UNCHANGED <<chosen, sessions, pc, result, locals, saved, sent, faults>>

CallStep(c) ==
  \/ CheckStep(c) \/ WaitEnds(c) \/ Poll(c) \/ Lock(c) \/ Pair(c) \/ StillActive(c) \/ TestSend(c)
  \/ Same(c) \/ Look(c) \/ Draw(c) \/ Put(c) \/ Kept(c) \/ UpsertStep(c) \/ UpsertFails(c)

Next ==
  \/ \E p \in Providers, a \in Accounts : Choose(p, a)
  \/ \E c \in Calls :
       \/ /\ provider # None /\ pc[c] = 0
          /\ \E f \in Flaws(provider) \cup {None}, a \in Accounts :
               \/ ConnectPrivate(c, f, a)
               \/ \E t \in Accounts \cup {None} : Prepare(c, f, a, t)
       \/ PrepareAnswered(c) \/ Expire(c) \/ ExpireLater(c) \/ Cancel(c) \/ Complete(c)
       \/ Callback(c) \/ CallStep(c)
  \/ Quit \/ Refresh

Spec == Init /\ [][Next]_vars

\* The runtime goes on with a call, requests have time limits, and the listener's wait has its own.
Fairness == \A c \in Calls : WF_vars(CallStep(c)) /\ WF_vars(Expire(c))
FairSpec == Spec /\ Fairness

-----------------------------------------------------------------------------
TypeOK ==
  /\ provider \in Providers \cup {None} /\ had \in BOOLEAN
  /\ session \in [Calls -> {None, "asking", "open", "held", "gone"}]
  /\ pc \in [Calls -> 0 .. 10] /\ result \in [Calls -> {None, "connected", "failed"}]
  /\ ref \in [Calls -> Refs \cup {None}] /\ prior \in [Calls -> Refs \cup {None}]
  /\ vault \in [Refs -> Refs \cup {None}] /\ rows \in [Accounts -> Refs \cup {None}]
  /\ faults \in 0 .. MaxFaults

\* A saved connection always has a credential, and it is one its own account signed in with:
\* undoing a failed save never takes the credential of a row (the ends of exchange_and_save,
\* save_authorized_connection, connect_bot and the others).
RowHasItsCredential ==
  \A a \in Accounts : rows[a] # None =>
    /\ vault[rows[a]] # None
    /\ vault[rows[a]] \in Calls => account[vault[rows[a]]] = a

\* When no call runs, a credential without a row is left only by an undo that failed, a quit, or
\* two sign-ins of one account side by side (the second row keeps the first's reference).
NoStrayCredential ==
  (\A c \in Calls : pc[c] = 0) =>
    \A r \in Refs : vault[r] # None => excused \/ \E a \in Accounts : rows[a] = r

\* A sign-in that was cancelled while its session could still be found does not connect.
CancelledNeverConnects == \A c \in Calls : stopped[c] => result[c] # "connected"

\* What connects has passed every check of its provider, and a reconnect stays with its account.
AcceptedIsSound ==
  \A c \in Calls : result[c] = "connected" =>
    /\ flaw[c] = None
    /\ target[c] \in {None, account[c]}

\* Telegram pairs one chat: two pairings side by side never both connect.
OneTelegram ==
  provider = "telegram" => Cardinality({c \in Calls : result[c] = "connected"}) <= 1

\* A pairing sends its test message again only after a save that failed.
TestedOnce == \A c \in Calls : sent[c] <= 1 + faults

\* A Microsoft connection asks for a new sign-in only when Microsoft refused the grant.
GrantOutlivesRefresh == provider = "microsoft" /\ reauth => revoked

\* A sign-in always comes to an end.
SignInEnds == \A c \in Calls : pc[c] # 0 ~> pc[c] = 0
=============================================================================
