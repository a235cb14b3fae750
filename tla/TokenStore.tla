----------------------------- MODULE TokenStore -----------------------------
(***************************************************************************)
(* nodes/brainstem_4070/auth.py and scripts/create_token.py: the bearer    *)
(* tokens.  Two processes keep a copy of tokens.json each and write it     *)
(* back whole: the hub on every verified request (use_count), the          *)
(* command-line script on create and revoke.  Within the hub verify runs   *)
(* in the thread pool; its stat and its read come before the store's lock. *)
(*                                                                         *)
(* An entry is its name, its token (a hash verifies that token alone) and  *)
(* the kdf of the hash; use_count and last_used_at are left out.  A write  *)
(* of the file is atomic (tmp + os.replace) and gets a new mtime, here a   *)
(* counter; version 0 is a file that does not exist.                       *)
(***************************************************************************)
EXTENDS Naturals

CONSTANTS Threads, Names, Tokens,
          NoToken,      \* a missing or malformed Authorization header
          MaxVersion    \* bound on the writes of tokens.json

ASSUME TokenAssumption == NoToken \notin Tokens /\ MaxVersion \in Nat

VARIABLES file, version,   \* tokens.json: its entries and its mtime
          store,           \* the hub's _entries and _mtime_ns
          verify,          \* each hub thread in require_token
          script,          \* the create_token.py that runs, if any
          live, minted,    \* history: entries created and not revoked; tokens used
          site             \* how the two processes are used, and where argon2 is

tokenVars == <<file, version, store, verify, script, live, minted, site>>

Entry == [name : Names, token : Tokens, kdf : {"argon2", "scrypt"}]

Waiting == [pc |-> "idle", token |-> NoToken, seen |-> 0, read |-> {}, granted |-> FALSE]

Asked(token) == [pc |-> IF token = NoToken THEN "done" ELSE "stat", token |-> token,
                 seen |-> 0, read |-> {}, granted |-> FALSE]

NoScript == [pc |-> "idle", entries |-> {}]

\* calm: the script runs while no request is being verified, and every read
\* of the file succeeds.  argon2: the processes that have argon2-cffi.
TokenInit ==
    /\ file = {} /\ version = 0
    /\ store = [entries |-> {}, mtime |-> 0]
    /\ verify = [r \in Threads |-> Waiting]
    /\ script = NoScript
    /\ live = {} /\ minted = {}
    /\ site \in [calm : BOOLEAN, argon2 : SUBSET {"hub", "script"}]

ScriptMayRun == site.calm => \A r \in Threads : verify[r].pc = "idle"

HubMayRun == site.calm => script.pc = "idle"

\* The store's lock is held from the match to the end of the flush.
Unlocked == \A r \in Threads : verify[r].pc # "restat"

\* verify_token: a scrypt hash verifies anywhere, an argon2 hash only where
\* argon2-cffi is installed.
VerifyToken(e, token) == e.token = token /\ (e.kdf = "argon2" => "hub" \in site.argon2)

Kdf(process) == IF process \in site.argon2 THEN "argon2" ELSE "scrypt"

Granted(r, b) == verify' = [verify EXCEPT ![r].pc = "done", ![r].granted = b]

-----------------------------------------------------------------------------
\* require_token: a header that carries no token is a 401 on the spot.
Request(r, token) ==
    /\ verify[r].pc = "idle" /\ HubMayRun
    /\ verify' = [verify EXCEPT ![r] = Asked(token)]
    /\ UNCHANGED <<file, version, store, script, live, minted, site>>

\* Mutant: a store that is loaded is not loaded again.
StatOnce(r) ==
    /\ verify[r].pc = "stat"
    /\ verify' = [verify EXCEPT ![r].seen = version,
                    ![r].pc = IF store.mtime # 0 THEN "match" ELSE "read"]
    /\ UNCHANGED <<file, version, store, script, live, minted, site>>

\* _reload_if_changed: stat, and nothing to do when the mtime is the known one.
Stat(r) ==
    /\ verify[r].pc = "stat"
    /\ verify' = [verify EXCEPT ![r].seen = version,
                    ![r].pc = IF version = store.mtime THEN "match" ELSE "read"]
    /\ UNCHANGED <<file, version, store, script, live, minted, site>>

\* The file is read; one that is unreadable leaves the old entries in place.
ReadFile(r) ==
    /\ verify[r].pc = "read"
    /\ \/ verify' = [verify EXCEPT ![r].read = file, ![r].pc = "adopt"]
       \/ ~site.calm /\ verify' = [verify EXCEPT ![r].pc = "match"]
    /\ UNCHANGED <<file, version, store, script, live, minted, site>>

Adopt(r) ==
    /\ verify[r].pc = "adopt" /\ Unlocked
    /\ store' = [entries |-> verify[r].read, mtime |-> verify[r].seen]
    /\ verify' = [verify EXCEPT ![r].pc = "match"]
    /\ UNCHANGED <<file, version, script, live, minted, site>>

\* Mutant: a flush that fails denies the request.
MatchOrDeny(r) ==
    /\ verify[r].pc = "match" /\ Unlocked
    /\ \/ /\ \E e \in store.entries : VerifyToken(e, verify[r].token)
          /\ version < MaxVersion
          /\ file' = store.entries /\ version' = version + 1
          /\ verify' = [verify EXCEPT ![r].pc = "restat"]
       \/ Granted(r, FALSE) /\ UNCHANGED <<file, version>>
    /\ UNCHANGED <<store, script, live, minted, site>>

\* verify walks the entries.  A match is counted, which rewrites the file; a
\* flush that fails denies nobody.
Match(r) ==
    /\ verify[r].pc = "match" /\ Unlocked
    /\ \/ /\ \E e \in store.entries : VerifyToken(e, verify[r].token)
          /\ version < MaxVersion
          /\ file' = store.entries /\ version' = version + 1
          /\ verify' = [verify EXCEPT ![r].pc = "restat"]
       \/ /\ Granted(r, \E e \in store.entries : VerifyToken(e, verify[r].token))
          /\ UNCHANGED <<file, version>>
    /\ UNCHANGED <<store, script, live, minted, site>>

\* Mutant: the mtime is the time of day, not the file's.
RestatClock(r) ==
    /\ verify[r].pc = "restat"
    /\ store' = [store EXCEPT !.mtime = version + 1]
    /\ Granted(r, TRUE)
    /\ UNCHANGED <<file, version, script, live, minted, site>>

\* The end of _flush: a second stat, of whatever is at the path by now.
Restat(r) ==
    /\ verify[r].pc = "restat"
    /\ store' = [store EXCEPT !.mtime = version]
    /\ Granted(r, TRUE)
    /\ UNCHANGED <<file, version, script, live, minted, site>>

Respond(r) ==
    /\ verify[r].pc = "done"
    /\ verify' = [verify EXCEPT ![r] = Waiting]
    /\ UNCHANGED <<file, version, store, script, live, minted, site>>

\* configure_store in a new hub process.  One that cannot read starts empty.
HubRestart ==
    /\ HubMayRun
    /\ \/ store' = [entries |-> file, mtime |-> version]
       \/ ~site.calm /\ store' = [entries |-> {}, mtime |-> 0]
    /\ verify' = [r \in Threads |-> Waiting]
    /\ UNCHANGED <<file, version, script, live, minted, site>>

-----------------------------------------------------------------------------
\* TokenStore.load in the script, and the reload inside create or revoke: a
\* store that is unreadable both times is an empty one.
ScriptLoad ==
    /\ script.pc = "idle" /\ ScriptMayRun
    /\ \/ script' = [pc |-> "act", entries |-> file]
       \/ ~site.calm /\ script' = [pc |-> "act", entries |-> {}]
    /\ UNCHANGED <<file, version, store, verify, live, minted, site>>

\* _flush of the script, and its exit.
ScriptWrites(entries) ==
    /\ version < MaxVersion
    /\ file' = entries /\ version' = version + 1
    /\ script' = NoScript

\* Mutant: the name is not checked.
CreateAnyway(name, token) ==
    /\ script.pc = "act" /\ token \notin minted
    /\ LET e == [name |-> name, token |-> token, kdf |-> Kdf("script")] IN
         ScriptWrites(script.entries \cup {e}) /\ live' = live \cup {e}
    /\ minted' = minted \cup {token}
    /\ UNCHANGED <<store, verify, site>>

Create(name, token) ==
    /\ script.pc = "act" /\ token \notin minted
    /\ \A e \in script.entries : e.name # name
    /\ LET e == [name |-> name, token |-> token, kdf |-> Kdf("script")] IN
         ScriptWrites(script.entries \cup {e}) /\ live' = live \cup {e}
    /\ minted' = minted \cup {token}
    /\ UNCHANGED <<store, verify, site>>

Revoke(name) ==
    /\ script.pc = "act"
    /\ \E e \in script.entries : e.name = name
    /\ ScriptWrites({e \in script.entries : e.name # name})
    /\ live' = {e \in live : e.name # name}
    /\ UNCHANGED <<store, verify, minted, site>>

\* --list, a name already taken, an unknown name, a failed flush, a kill.
ScriptEnds ==
    /\ script.pc = "act"
    /\ script' = NoScript
    /\ UNCHANGED <<file, version, store, verify, live, minted, site>>

-----------------------------------------------------------------------------
TokenNext ==
    \/ \E r \in Threads, token \in Tokens \cup {NoToken} : Request(r, token)
    \/ \E r \in Threads : \/ Stat(r) \/ ReadFile(r) \/ Adopt(r) \/ Match(r)
                          \/ Restat(r) \/ Respond(r)
    \/ HubRestart
    \/ ScriptLoad
    \/ \E name \in Names, token \in Tokens : Create(name, token)
    \/ \E name \in Names : Revoke(name)
    \/ ScriptEnds

TokenSpec == TokenInit /\ [][TokenNext]_tokenVars

-----------------------------------------------------------------------------
TokenTypeOK ==
    /\ file \subseteq Entry /\ live \subseteq Entry /\ minted \subseteq Tokens
    /\ version \in 0..MaxVersion
    /\ store \in [entries : SUBSET Entry, mtime : 0..MaxVersion]
    /\ verify \in [Threads -> [pc : {"idle", "stat", "read", "adopt", "match", "restat", "done"},
                               token : Tokens \cup {NoToken}, seen : 0..MaxVersion,
                               read : SUBSET Entry, granted : BOOLEAN]]
    /\ script \in [pc : {"idle", "act"}, entries : SUBSET Entry]
    /\ site \in [calm : BOOLEAN, argon2 : SUBSET {"hub", "script"}]

UniqueNames(S) == \A e, f \in S : e.name = f.name => e = f

\* However the hub and the script overwrite each other's file, no name has two
\* tokens in it: revoking a name leaves no second token behind.
NamesAreUnique == UniqueNames(file)

\* The counting of requests writes back what the script wrote: with the two
\* processes apart, the file holds exactly the tokens created and not revoked,
\* whatever the hub's own threads, flush failures and restarts do.
TokensAreKept == site.calm => file = live

\* And then the mtime check never serves a stale entry: a request is let in if
\* and only if its token is a live one that this hub has the library for.
VerdictIsRight ==
    site.calm =>
      \A r \in Threads : verify[r].pc = "done" =>
        (verify[r].granted <=> \E e \in live : VerifyToken(e, verify[r].token))
=============================================================================
