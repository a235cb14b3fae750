---------------------------- MODULE NexusClient ----------------------------
(***************************************************************************)
(* The two clients of the hub: clients/cli/nexus_cli.py, and the web page  *)
(* clients/web/index.html behind its proxy serve.py.  One client sends     *)
(* prompts one at a time, on the /members/{id}/chat path or the legacy     *)
(* /generate path; it retries the 503s the hub asks it to retry, polls the *)
(* inbox for a prompt that was queued, and tells the user how each prompt  *)
(* ended.  The hub is reduced to what its routes do to one request.        *)
(***************************************************************************)
EXTENDS Naturals

CONSTANTS MaxPrompts,   \* bound on the prompts the user types
          MaxPolls      \* inbox polls within --max-wait

ASSUME ClientAssumption == MaxPrompts \in Nat \ {0} /\ MaxPolls \in Nat \ {0}

VARIABLES client,     \* the client program
          post,       \* the POST of each prompt: its path while the hub has it
          inbox,      \* the message the hub queued for a prompt
          effects,    \* history: turns run and messages queued by POSTs of a prompt
          lost,       \* history: prompts of which an answer never arrived
          shown,      \* what the user was last told of each prompt
          presence    \* of the member, at the hub

clientVars == <<client, post, inbox, effects, lost, shown, presence>>

Prompts == 1..MaxPrompts

MAX_MEMBER_LOADING_RETRIES == 3

Loop == [pc |-> "idle", n |-> 0, loading |-> 0, cortex |-> FALSE, posts |-> 0, polls |-> 0]

\* A CLI that exits, or dies, between two prompts is one that is idle: what it
\* keeps (its session id, the URL) does not change how a prompt is handled.
ClientInit ==
    /\ \E ui \in {"cli", "web"}, path \in {"member", "legacy"} :
          client = [ui |-> ui, path |-> path, typed |-> 0, loop |-> Loop]
    /\ post = [n \in Prompts |-> "none"]
    /\ inbox = [n \in Prompts |-> "none"]
    /\ effects = [n \in Prompts |-> 0]
    /\ lost = {}
    /\ shown = [n \in Prompts |-> "nothing"]
    /\ presence \in {"awake", "busy", "waking", "asleep"}

Current == client.loop.n

At(pc) == client.loop.pc = pc

Loops(loop) == client' = [client EXCEPT !.loop = loop]

\* The prompt ends, and the user is told how.
Ends(n, outcome) == shown' = [shown EXCEPT ![n] = outcome] /\ Loops(Loop)

-----------------------------------------------------------------------------
\* A prompt is typed and posted.  The page has one request in flight at a time.
TypePrompt(n) ==
    /\ At("idle") /\ n = client.typed + 1
    /\ client' = [client EXCEPT !.typed = n,
                    !.loop = [Loop EXCEPT !.pc = "wait", !.n = n, !.posts = 1]]
    /\ post' = [post EXCEPT ![n] = client.path]
    /\ UNCHANGED <<inbox, effects, lost, shown, presence>>

\* --member, /member and /legacy of the REPL, the member picker of the page.
SwitchPath ==
    /\ At("idle")
    /\ \E path \in {"member", "legacy"} : client' = [client EXCEPT !.path = path]
    /\ UNCHANGED <<post, inbox, effects, lost, shown, presence>>

\* A reply reaches the client that waits for it, and nobody else.
Replies(n, reply) ==
    post' = [post EXCEPT ![n] = IF At("wait") /\ Current = n THEN reply ELSE "none"]

Effect(n) == effects' = [effects EXCEPT ![n] = @ + 1]

\* /generate, and member_chat of a member who is awake: a turn, the cortex-down
\* 503, or an error; a 500 may come after the turn was remembered.
HubRunsTurn(n) ==
    /\ post[n] = "legacy" \/ (post[n] = "member" /\ presence = "awake")
    /\ \/ Effect(n) /\ Replies(n, "ok") /\ UNCHANGED lost
       \/ Replies(n, "cortex") /\ UNCHANGED <<effects, lost>>
       \/ Replies(n, "error") /\ UNCHANGED <<effects, lost>>
       \/ Effect(n) /\ Replies(n, "error") /\ lost' = lost \cup {n}
    /\ UNCHANGED <<client, inbox, shown, presence>>

HubSaysLoading(n) ==
    /\ post[n] = "member" /\ presence = "waking"
    /\ Replies(n, "loading")
    /\ UNCHANGED <<client, inbox, effects, lost, shown, presence>>

HubEnqueues(n) ==
    /\ post[n] = "member" /\ presence \in {"asleep", "busy"}
    /\ Effect(n) /\ Replies(n, "queued")
    /\ inbox' = [inbox EXCEPT ![n] = "queued"]
    /\ UNCHANGED <<client, lost, shown, presence>>

\* The drain answers a queued message.
HubDrains(n) ==
    /\ presence = "awake" /\ inbox[n] = "queued"
    /\ inbox' = [inbox EXCEPT ![n] = "answered"]
    /\ UNCHANGED <<client, post, effects, lost, shown, presence>>

PresenceChanges(p) ==
    /\ presence' = p
    /\ UNCHANGED <<client, post, inbox, effects, lost, shown>>

-----------------------------------------------------------------------------
\* A reply is taken off the connection.
Takes(reply) == At("wait") /\ post[Current] = reply /\ post' = [post EXCEPT ![Current] = "none"]

Answered ==
    /\ Takes("ok")
    /\ Ends(Current, "answer")
    /\ UNCHANGED <<inbox, effects, lost, presence>>

\* Any error but the two 503s; a second cortex-down 503 is one of them.
Refused ==
    /\ Takes("error") \/ (Takes("cortex") /\ client.loop.cortex)
    /\ Ends(Current, "failed")
    /\ UNCHANGED <<inbox, effects, lost, presence>>

\* The cortex-down 503, the first time: sleep, then one more POST.
CortexDown ==
    /\ Takes("cortex") /\ ~client.loop.cortex
    /\ Loops([client.loop EXCEPT !.pc = "sleep", !.cortex = TRUE])
    /\ UNCHANGED <<inbox, effects, lost, shown, presence>>

\* Mutant: the loading retries are not counted.
LoadingUncounted ==
    /\ Takes("loading")
    /\ Loops([client.loop EXCEPT !.pc = "sleep"])
    /\ UNCHANGED <<inbox, effects, lost, shown, presence>>

\* The member_loading 503: up to three retries.  The CLI's POST after a
\* cortex-down has no handler around it, so there a 503 of either kind ends.
MemberLoading ==
    /\ Takes("loading")
    /\ \/ /\ client.loop.loading < MAX_MEMBER_LOADING_RETRIES
          /\ client.ui = "web" \/ ~client.loop.cortex
          /\ Loops([client.loop EXCEPT !.pc = "sleep", !.loading = client.loop.loading + 1])
          /\ UNCHANGED shown
       \/ /\ \/ client.loop.loading = MAX_MEMBER_LOADING_RETRIES
             \/ client.ui = "cli" /\ client.loop.cortex
          /\ Ends(Current, "failed")
    /\ UNCHANGED <<inbox, effects, lost, presence>>

\* The Retry-After has passed.
PostAgain ==
    /\ At("sleep")
    /\ Loops([client.loop EXCEPT !.pc = "wait", !.posts = client.loop.posts + 1])
    /\ post' = [post EXCEPT ![Current] = client.path]
    /\ UNCHANGED <<inbox, effects, lost, shown, presence>>

\* Mutant: no answer is taken for a 503, and the prompt is posted again.
PostOnTimeout ==
    /\ At("wait")
    /\ lost' = lost \cup {Current}
    /\ \/ post[Current] = client.path /\ UNCHANGED post
       \/ post' = [post EXCEPT ![Current] = "none"]
    /\ Loops([client.loop EXCEPT !.pc = "sleep"])
    /\ UNCHANGED <<inbox, effects, shown, presence>>

\* No answer: 180 s passed (the CLI's timeout, or the proxy's, a 502 to the
\* page), the connection broke, or was never made.  What the hub has of the
\* request it carries on with.
NoAnswer ==
    /\ At("wait")
    /\ lost' = lost \cup {Current}
    /\ \/ post[Current] = client.path /\ UNCHANGED post
       \/ post' = [post EXCEPT ![Current] = "none"]
    /\ Ends(Current, "failed")
    /\ UNCHANGED <<inbox, effects, presence>>

\* The 202: the inbox is polled, at once and then at intervals.
Queued ==
    /\ Takes("queued")
    /\ Loops([client.loop EXCEPT !.pc = "poll"])
    /\ UNCHANGED <<inbox, effects, lost, shown, presence>>

\* Mutant: what the inbox says last is taken for the answer.
PollTakesAny ==
    /\ At("poll")
    /\ \/ inbox[Current] = "answered" /\ Ends(Current, "answer")
       \/ /\ inbox[Current] = "queued"
          /\ IF client.loop.polls < MaxPolls
             THEN Loops([client.loop EXCEPT !.polls = client.loop.polls + 1]) /\ UNCHANGED shown
             ELSE Ends(Current, "answer")
    /\ UNCHANGED <<post, inbox, effects, lost, presence>>

\* Mutant: the polling starts over at its limit.
PollForever ==
    /\ At("poll")
    /\ \/ inbox[Current] = "answered" /\ Ends(Current, "answer")
       \/ /\ inbox[Current] = "queued"
          /\ Loops([client.loop EXCEPT !.polls = IF client.loop.polls < MaxPolls
                                               THEN client.loop.polls + 1 ELSE 0])
          /\ UNCHANGED shown
    /\ UNCHANGED <<post, inbox, effects, lost, presence>>

\* poll_inbox.  The user who waited for too long is told how to check again.
Poll ==
    /\ At("poll")
    /\ \/ inbox[Current] = "answered" /\ Ends(Current, "answer")
       \/ /\ inbox[Current] = "queued"
          /\ IF client.loop.polls < MaxPolls
             THEN Loops([client.loop EXCEPT !.polls = client.loop.polls + 1]) /\ UNCHANGED shown
             ELSE Ends(Current, "queued")
    /\ UNCHANGED <<post, inbox, effects, lost, presence>>

\* A poll that fails.  The page takes an error status for "not yet", and a
\* fetch that threw for the end.  The CLI has shown the message id by then; the
\* exception ends its process, REPL included, or --check-inbox reports it.
PollFails ==
    /\ At("poll")
    /\ \/ /\ client.ui = "web" /\ client.loop.polls < MaxPolls
          /\ Loops([client.loop EXCEPT !.polls = client.loop.polls + 1]) /\ UNCHANGED shown
       \/ /\ client.ui = "web" /\ client.loop.polls = MaxPolls
          /\ Ends(Current, "queued")
       \/ /\ client.ui = "web"
          /\ Ends(Current, "lost contact")
       \/ /\ client.ui = "cli"
          /\ Ends(Current, "queued")
    /\ UNCHANGED <<post, inbox, effects, lost, presence>>

\* --check-inbox in a new CLI process, or the page's "check again" button.
CheckInbox(n) ==
    /\ At("idle")
    /\ shown[n] = "queued"
    /\ Loops([Loop EXCEPT !.pc = "poll", !.n = n])
    /\ UNCHANGED <<post, inbox, effects, lost, shown, presence>>

-----------------------------------------------------------------------------
ClientSteps ==
    \/ Answered \/ Refused \/ CortexDown \/ MemberLoading \/ PostAgain \/ NoAnswer
    \/ Queued \/ Poll \/ PollFails

HubSteps(n) == HubRunsTurn(n) \/ HubSaysLoading(n) \/ HubEnqueues(n)

ClientNext ==
    \/ ClientSteps \/ SwitchPath
    \/ \E n \in Prompts : TypePrompt(n) \/ HubSteps(n) \/ HubDrains(n) \/ CheckInbox(n)
    \/ \E p \in {"awake", "busy", "waking", "asleep"} : PresenceChanges(p)

\* Every wait of the client ends: each of its calls has a timeout, each sleep
\* a length, the polling a limit.
ClientFairness == WF_clientVars(ClientSteps)

ClientSpec == ClientInit /\ [][ClientNext]_clientVars /\ ClientFairness

-----------------------------------------------------------------------------
\* Types; and a prompt costs at most five POSTs, whatever the hub replies.
ClientTypeOK ==
    /\ client \in [ui : {"cli", "web"}, path : {"member", "legacy"}, typed : 0..MaxPrompts,
                   loop : [pc : {"idle", "wait", "sleep", "poll"}, n : 0..MaxPrompts,
                           loading : 0..MAX_MEMBER_LOADING_RETRIES, cortex : BOOLEAN,
                           posts : 0..MAX_MEMBER_LOADING_RETRIES + 2, polls : 0..MaxPolls]]
    /\ post \in [Prompts -> {"none", "member", "legacy", "ok", "cortex", "error", "loading", "queued"}]
    /\ inbox \in [Prompts -> {"none", "queued", "answered"}]
    /\ effects \in [Prompts -> Nat]
    /\ lost \subseteq Prompts
    /\ shown \in [Prompts -> {"nothing", "answer", "failed", "queued", "lost contact"}]
    /\ presence \in {"awake", "busy", "waking", "asleep"}

\* A prompt typed once is one turn or one queued message at the hub, however
\* the retries, the timeouts and the presence of the member fall.
OneEffectPerPrompt == \A n \in Prompts : effects[n] <= 1

\* What the user is told is so: an answer is one the member gave, "queued" is
\* a message in the inbox that checking again will find, and a prompt called
\* failed left no trace at the hub, unless its answer was lost on the way or
\* the hub failed after the turn.
ReportIsTrue ==
    \A n \in Prompts :
      /\ shown[n] = "answer" => effects[n] = 1 /\ inbox[n] # "queued"
      /\ shown[n] \in {"queued", "lost contact"} => inbox[n] # "none"
      /\ shown[n] = "failed" /\ n \notin lost => effects[n] = 0

\* Every prompt comes to an end the user sees.
PromptsEnd == \A n \in Prompts : (client.loop.n = n) ~> (client.loop.n # n)
=============================================================================
