------------------------- MODULE TokenStore_proofs -------------------------
(***************************************************************************)
(* Proofs about the token file: for any number of hub threads, names,      *)
(* tokens and writes.  The invariant has two parts: what holds of every    *)
(* copy of the file whoever overwrites whom (Files, Versions), and what    *)
(* holds when the script and the hub keep apart (CalmInv).                 *)
(***************************************************************************)
EXTENDS TokenStore, TLAPS

\* Every copy of the entries has unique names; no mtime is from the future.
Files == /\ UniqueNames(file) /\ UniqueNames(store.entries) /\ UniqueNames(script.entries)
         /\ \A r \in Threads : UniqueNames(verify[r].read)

Versions == /\ store.mtime <= version
            /\ \A r \in Threads : verify[r].seen <= version

Right(r) == verify[r].granted <=> \E e \in live : VerifyToken(e, verify[r].token)

\* What a thread of the hub has read, is about to match against, or answered.
ThreadOK(r) ==
    /\ verify[r].pc = "adopt" => verify[r].read = live
    /\ verify[r].pc \in {"match", "restat"} => store.entries = live
    /\ verify[r].pc = "restat" => \E e \in live : VerifyToken(e, verify[r].token)
    /\ verify[r].pc = "done" => Right(r)

\* A store whose mtime is that of the file holds what the file holds.
Calm ==
    /\ file = live
    /\ store.mtime = version => store.entries = live
    /\ \A r \in Threads : ThreadOK(r)
    /\ script.pc = "act" => /\ script.entries = live
                            /\ \A r \in Threads : verify[r].pc = "idle"

CalmInv == site.calm => Calm

TokenInv == TokenTypeOK /\ Files /\ Versions /\ CalmInv

\* The invariant holds of a hub and a script that start without a file.
LEMMA InitInv == TokenInit => TokenInv
<1> SUFFICES ASSUME TokenInit PROVE TokenInv
  OBVIOUS
<1>1. TokenTypeOK
  BY TokenAssumption DEF TokenInit, TokenTypeOK, Waiting, NoScript
<1>2. Files /\ Versions
  BY DEF TokenInit, Files, Versions, UniqueNames, Waiting, NoScript
<1>3. CalmInv
  BY DEF TokenInit, CalmInv, Calm, ThreadOK, Waiting, NoScript
<1>4. QED  BY <1>1, <1>2, <1>3 DEF TokenInv

Frame == [pc : {"idle", "stat", "read", "adopt", "match", "restat", "done"},
          token : Tokens \cup {NoToken}, seen : 0..MaxVersion,
          read : SUBSET Entry, granted : BOOLEAN]

\* A verdict leaves the rest of the thread's record as it is.
LEMMA GrantedType ==
    ASSUME verify \in [Threads -> Frame], NEW r \in Threads, NEW b \in BOOLEAN, Granted(r, b)
    PROVE  verify' \in [Threads -> Frame]
<1>1. ASSUME NEW g \in Threads PROVE verify'[g] \in Frame
  <2>1. CASE g # r
    BY <2>1 DEF Granted
  <2>2. CASE g = r
    <3> DEFINE f == verify[r]
    <3> DEFINE done == [pc |-> "done", token |-> f.token, seen |-> f.seen,
                        read |-> f.read, granted |-> b]
    <3>1. f \in Frame
      OBVIOUS
    <3>2. verify'[r] = done
      BY <3>1 DEF Granted, Frame
    <3>3. done \in Frame
      BY <3>1 DEF Frame
    <3>4. QED  BY <2>2, <3>2, <3>3
  <2>3. QED  BY <2>1, <2>2
<1>2. verify' = [g \in Threads |-> verify'[g]]
  BY DEF Granted
<1>3. QED  BY <1>1, <1>2

LEMMA TypeStep == ASSUME TokenInv, TokenNext PROVE TokenTypeOK'
<1> USE TokenAssumption DEF TokenInv, TokenTypeOK
<1>1. ASSUME NEW r \in Threads, NEW token \in Tokens \cup {NoToken}, Request(r, token)
      PROVE  TokenTypeOK'
  <2>1. verify' = [verify EXCEPT ![r] = Asked(token)]
    BY <1>1 DEF Request
  <2>2. Asked(token) \in Frame
    BY DEF Asked, Frame
  <2>3. verify' \in [Threads -> Frame]
    BY <2>1, <2>2 DEF Frame
  <2>4. QED  BY <1>1, <2>3 DEF Request, Frame
<1>2. ASSUME NEW r \in Threads, Stat(r) PROVE TokenTypeOK'
  BY <1>2 DEF Stat
<1>3. ASSUME NEW r \in Threads, ReadFile(r) PROVE TokenTypeOK'
  BY <1>3 DEF ReadFile
<1>4. ASSUME NEW r \in Threads, Adopt(r) PROVE TokenTypeOK'
  BY <1>4 DEF Adopt
<1>5. ASSUME NEW r \in Threads, Match(r) PROVE TokenTypeOK'
  <2>1. (\E e \in store.entries : VerifyToken(e, verify[r].token)) \in BOOLEAN
    OBVIOUS
  <2>2. CASE version < MaxVersion /\ file' = store.entries /\ version' = version + 1
             /\ verify' = [verify EXCEPT ![r].pc = "restat"]
    BY <1>5, <2>2 DEF Match
  <2>3. CASE \E b \in BOOLEAN : Granted(r, b) /\ UNCHANGED <<file, version>>
    BY <1>5, <2>3 DEF Match, Granted
  <2>4. QED  BY <1>5, <2>1, <2>2, <2>3 DEF Match
<1>6. ASSUME NEW r \in Threads, Restat(r) PROVE TokenTypeOK'
  <2>1. store' \in [entries : SUBSET Entry, mtime : 0..MaxVersion]
    BY <1>6 DEF Restat
  <2>2. \E b \in BOOLEAN : Granted(r, b)
    BY <1>6 DEF Restat
  <2>3. UNCHANGED <<file, version, script, live, minted, site>>
    BY <1>6 DEF Restat
  <2>4. verify' \in [Threads -> Frame]
    BY <2>2, GrantedType DEF Frame
  <2>5. QED  BY <2>1, <2>3, <2>4 DEF Frame
<1>7. ASSUME NEW r \in Threads, Respond(r) PROVE TokenTypeOK'
  BY <1>7 DEF Respond, Waiting
<1>8. CASE HubRestart
  BY <1>8 DEF HubRestart, Waiting
<1>9. CASE ScriptLoad
  BY <1>9 DEF ScriptLoad
<1>10. ASSUME NEW name \in Names, NEW token \in Tokens, Create(name, token) PROVE TokenTypeOK'
  <2>1. [name |-> name, token |-> token, kdf |-> Kdf("script")] \in Entry
    BY DEF Entry, Kdf
  <2>2. QED  BY <1>10, <2>1 DEF Create, ScriptWrites, NoScript
<1>11. ASSUME NEW name \in Names, Revoke(name) PROVE TokenTypeOK'
  BY <1>11 DEF Revoke, ScriptWrites, NoScript
<1>12. CASE ScriptEnds
  BY <1>12 DEF ScriptEnds, NoScript
<1>13. QED  BY <1>1, <1>2, <1>3, <1>4, <1>5, <1>6, <1>7, <1>8, <1>9, <1>10, <1>11, <1>12 DEF TokenNext

-----------------------------------------------------------------------------
\* Whoever writes, the file and its copies keep one entry per name.
LEMMA FilesStep == ASSUME TokenInv, TokenNext PROVE Files'
<1> USE DEF TokenInv, TokenTypeOK, Files
<1>1. ASSUME NEW r \in Threads, NEW token \in Tokens \cup {NoToken}, Request(r, token)
      PROVE  Files'
  BY <1>1 DEF Request, Asked, UniqueNames
<1>2. ASSUME NEW r \in Threads, Stat(r) PROVE Files'
  BY <1>2 DEF Stat
<1>3. ASSUME NEW r \in Threads, ReadFile(r) PROVE Files'
  BY <1>3 DEF ReadFile
<1>4. ASSUME NEW r \in Threads, Adopt(r) PROVE Files'
  BY <1>4 DEF Adopt
<1>5. ASSUME NEW r \in Threads, Match(r) PROVE Files'
  BY <1>5 DEF Match, Granted
<1>6. ASSUME NEW r \in Threads, Restat(r) PROVE Files'
  BY <1>6 DEF Restat, Granted
<1>7. ASSUME NEW r \in Threads, Respond(r) PROVE Files'
  BY <1>7 DEF Respond, Waiting, UniqueNames
<1>8. CASE HubRestart
  BY <1>8 DEF HubRestart, Waiting, UniqueNames
<1>9. CASE ScriptLoad
  BY <1>9 DEF ScriptLoad, UniqueNames
<1>10. ASSUME NEW name \in Names, NEW token \in Tokens, Create(name, token) PROVE Files'
  <2> DEFINE e == [name |-> name, token |-> token, kdf |-> Kdf("script")]
  <2>1. UniqueNames(script.entries \cup {e})
    <3>1. \A f \in script.entries : f.name # e.name
      BY <1>10 DEF Create
    <3>2. QED  BY <3>1 DEF UniqueNames
  <2>2. file' = script.entries \cup {e} /\ script' = NoScript /\ UNCHANGED <<store, verify>>
    BY <1>10 DEF Create, ScriptWrites
  <2>3. QED  BY <2>1, <2>2 DEF NoScript, UniqueNames
<1>11. ASSUME NEW name \in Names, Revoke(name) PROVE Files'
  BY <1>11 DEF Revoke, ScriptWrites, NoScript, UniqueNames
<1>12. CASE ScriptEnds
  BY <1>12 DEF ScriptEnds, NoScript, UniqueNames
<1>13. QED  BY <1>1, <1>2, <1>3, <1>4, <1>5, <1>6, <1>7, <1>8, <1>9, <1>10, <1>11, <1>12 DEF TokenNext

\* An mtime that was seen is one that the file has or had.
LEMMA VersionsStep == ASSUME TokenInv, TokenNext PROVE Versions'
<1> USE DEF TokenInv, TokenTypeOK, Versions
<1>1. ASSUME NEW r \in Threads, NEW token \in Tokens \cup {NoToken}, Request(r, token)
      PROVE  Versions'
  BY <1>1 DEF Request, Asked
<1>2. ASSUME NEW r \in Threads, Stat(r) PROVE Versions'
  BY <1>2 DEF Stat
<1>3. ASSUME NEW r \in Threads, ReadFile(r) PROVE Versions'
  BY <1>3 DEF ReadFile
<1>4. ASSUME NEW r \in Threads, Adopt(r) PROVE Versions'
  BY <1>4 DEF Adopt
<1>5. ASSUME NEW r \in Threads, Match(r) PROVE Versions'
  BY <1>5 DEF Match, Granted
<1>6. ASSUME NEW r \in Threads, Restat(r) PROVE Versions'
  BY <1>6 DEF Restat, Granted
<1>7. ASSUME NEW r \in Threads, Respond(r) PROVE Versions'
  BY <1>7 DEF Respond, Waiting
<1>8. CASE HubRestart
  BY <1>8 DEF HubRestart, Waiting
<1>9. CASE ScriptLoad
  BY <1>9 DEF ScriptLoad
<1>10. ASSUME NEW name \in Names, NEW token \in Tokens, Create(name, token) PROVE Versions'
  BY <1>10 DEF Create, ScriptWrites
<1>11. ASSUME NEW name \in Names, Revoke(name) PROVE Versions'
  BY <1>11 DEF Revoke, ScriptWrites
<1>12. CASE ScriptEnds
  BY <1>12 DEF ScriptEnds
<1>13. QED  BY <1>1, <1>2, <1>3, <1>4, <1>5, <1>6, <1>7, <1>8, <1>9, <1>10, <1>11, <1>12 DEF TokenNext

-----------------------------------------------------------------------------
\* A thread whose record stays, while neither `live` nor the entries of the
\* store change, is as right as it was.
LEMMA OtherThread ==
    ASSUME NEW g \in Threads, ThreadOK(g), verify'[g] = verify[g], live' = live, site' = site,
           verify[g].pc \in {"match", "restat"} => store'.entries = store.entries
    PROVE  ThreadOK(g)'
  BY DEF ThreadOK, Right, VerifyToken

\* Apart from each other, the hub and the script keep the file true.
LEMMA CalmStep == ASSUME TokenInv, TokenNext PROVE CalmInv'
<1> SUFFICES ASSUME site.calm, Calm, site' = site PROVE Calm'
  <2>1. site' = site
    BY DEF TokenNext, Request, Stat, ReadFile, Adopt, Match, Restat, Respond, HubRestart,
           ScriptLoad, Create, Revoke, ScriptEnds
  <2>2. QED  BY <2>1 DEF TokenInv, CalmInv
<1> USE DEF TokenInv, TokenTypeOK, Versions, Calm
<1>1. ASSUME NEW r \in Threads, NEW token \in Tokens \cup {NoToken}, Request(r, token)
      PROVE  Calm'
  <2>1. verify'[r] = Asked(token) /\ live' = live
    BY <1>1 DEF Request
  <2> SUFFICES ThreadOK(r)' /\ \A g \in Threads \ {r} : ThreadOK(g)'
    BY <1>1 DEF Request, HubMayRun
  <2>3. ThreadOK(r)'
    <3>1. CASE token = NoToken
      <4>1. \A e \in live : e.token # NoToken
        BY TokenAssumption DEF Entry
      <4>2. QED  BY <2>1, <3>1, <4>1 DEF Asked, ThreadOK, Right, VerifyToken
    <3>2. CASE token # NoToken
      BY <2>1, <3>2 DEF Asked, ThreadOK
    <3>3. QED  BY <3>1, <3>2
  <2>2. \A g \in Threads \ {r} : ThreadOK(g)'
    BY <1>1, OtherThread DEF Request
  <2>4. QED  BY <2>2, <2>3
<1>2. ASSUME NEW r \in Threads, Stat(r) PROVE Calm'
  <2>1. ThreadOK(r)'
    BY <1>2 DEF Stat, ThreadOK
  <2>2. \A g \in Threads \ {r} : ThreadOK(g)'
    BY <1>2, OtherThread DEF Stat
  <2>3. QED  BY <1>2, <2>1, <2>2 DEF Stat
<1>3. ASSUME NEW r \in Threads, ReadFile(r) PROVE Calm'
  <2>1. ThreadOK(r)'
    BY <1>3 DEF ReadFile, ThreadOK
  <2>2. \A g \in Threads \ {r} : ThreadOK(g)'
    BY <1>3, OtherThread DEF ReadFile
  <2>3. QED  BY <1>3, <2>1, <2>2 DEF ReadFile
<1>4. ASSUME NEW r \in Threads, Adopt(r) PROVE Calm'
  <2>1. store' = [entries |-> live, mtime |-> verify[r].seen]
    BY <1>4 DEF Adopt, ThreadOK
  <2>2. ThreadOK(r)'
    BY <1>4, <2>1 DEF Adopt, ThreadOK
  <2>3. \A g \in Threads \ {r} : ThreadOK(g)'
    <3> SUFFICES ASSUME NEW g \in Threads \ {r} PROVE ThreadOK(g)'
      OBVIOUS
    <3>1. verify[g].pc \in {"match", "restat"} => store'.entries = store.entries
      BY <2>1 DEF ThreadOK
    <3>2. QED  BY <1>4, <3>1, OtherThread DEF Adopt
  <2>4. QED  BY <1>4, <2>1, <2>2, <2>3 DEF Adopt
<1>5. ASSUME NEW r \in Threads, Match(r) PROVE Calm'
  <2> DEFINE ok == \E e \in store.entries : VerifyToken(e, verify[r].token)
  <2>1. store.entries = live /\ UNCHANGED <<store, script, live>>
    BY <1>5 DEF Match, ThreadOK
  <2>2. \A g \in Threads \ {r} : ThreadOK(g)'
    BY <1>5, OtherThread DEF Match, Granted
  <2>3. CASE ok /\ file' = store.entries /\ version' = version + 1
             /\ verify' = [verify EXCEPT ![r].pc = "restat"]
    <3>1. ThreadOK(r)'
      BY <2>1, <2>3 DEF ThreadOK, VerifyToken
    <3>2. store'.mtime # version'
      BY <2>1, <2>3
    <3>3. QED  BY <1>5, <2>1, <2>2, <2>3, <3>1, <3>2 DEF Match
  <2>4. CASE Granted(r, ok) /\ UNCHANGED <<file, version>>
    <3>1. ThreadOK(r)'
      BY <2>1, <2>4 DEF ThreadOK, Granted, Right, VerifyToken
    <3>2. QED  BY <1>5, <2>1, <2>2, <2>4, <3>1 DEF Match, Granted
  <2>5. QED  BY <1>5, <2>3, <2>4 DEF Match
<1>6. ASSUME NEW r \in Threads, Restat(r) PROVE Calm'
  <2>1. store.entries = live /\ store'.entries = store.entries
    BY <1>6 DEF Restat, ThreadOK
  <2>2. ThreadOK(r)'
    BY <1>6, <2>1 DEF Restat, Granted, ThreadOK, Right, VerifyToken
  <2>3. \A g \in Threads \ {r} : ThreadOK(g)'
    BY <1>6, <2>1, OtherThread DEF Restat, Granted
  <2>4. QED  BY <1>6, <2>1, <2>2, <2>3 DEF Restat, Granted
<1>7. ASSUME NEW r \in Threads, Respond(r) PROVE Calm'
  <2>1. ThreadOK(r)'
    BY <1>7 DEF Respond, Waiting, ThreadOK
  <2>2. \A g \in Threads \ {r} : ThreadOK(g)'
    BY <1>7, OtherThread DEF Respond
  <2>3. QED  BY <1>7, <2>1, <2>2 DEF Respond
<1>8. CASE HubRestart
  BY <1>8 DEF HubRestart, Waiting, ThreadOK
<1>9. CASE ScriptLoad
  <2>1. \A g \in Threads : verify[g].pc = "idle"
    BY <1>9 DEF ScriptLoad, ScriptMayRun
  <2>2. script'.entries = live
    BY <1>9 DEF ScriptLoad
  <2>3. QED  BY <1>9, <2>1, <2>2 DEF ScriptLoad, ThreadOK
<1>10. ASSUME NEW name \in Names, NEW token \in Tokens, Create(name, token) PROVE Calm'
  <2>1. script.entries = live /\ \A g \in Threads : verify'[g].pc = "idle"
    BY <1>10 DEF Create
  <2>2. file' = live' /\ script'.pc = "idle" /\ store'.mtime # version'
    BY <1>10, <2>1 DEF Create, ScriptWrites, NoScript
  <2>3. QED  BY <2>1, <2>2 DEF ThreadOK
<1>11. ASSUME NEW name \in Names, Revoke(name) PROVE Calm'
  <2>1. script.entries = live /\ \A g \in Threads : verify'[g].pc = "idle"
    BY <1>11 DEF Revoke
  <2>2. file' = live' /\ script'.pc = "idle" /\ store'.mtime # version'
    BY <1>11, <2>1 DEF Revoke, ScriptWrites, NoScript
  <2>3. QED  BY <2>1, <2>2 DEF ThreadOK
<1>12. CASE ScriptEnds
  BY <1>12 DEF ScriptEnds, NoScript, ThreadOK, Right, VerifyToken
<1>13. QED  BY <1>1, <1>2, <1>3, <1>4, <1>5, <1>6, <1>7, <1>8, <1>9, <1>10, <1>11, <1>12 DEF TokenNext

-----------------------------------------------------------------------------
\* TokenInv is inductive.
LEMMA TokenInduction == TokenSpec => []TokenInv
<1>1. TokenInv /\ [TokenNext]_tokenVars => TokenInv'
  <2>1. CASE TokenInv /\ TokenNext
    BY <2>1, TypeStep, FilesStep, VersionsStep, CalmStep DEF TokenInv
  <2>2. CASE TokenInv /\ UNCHANGED tokenVars
    BY <2>2 DEF tokenVars, TokenInv, TokenTypeOK, Files, Versions, CalmInv, Calm, ThreadOK,
                Right, VerifyToken, UniqueNames
  <2>3. QED  BY <2>1, <2>2
<1>2. QED  BY InitInv, <1>1, PTL DEF TokenSpec

\* The state of the store, of the threads and of the script is well typed.
THEOREM TokensTyped == TokenSpec => []TokenTypeOK
<1>1. TokenInv => TokenTypeOK
  BY DEF TokenInv
<1>2. QED  BY <1>1, TokenInduction, PTL

\* However the two processes overwrite each other, a name has one token, so
\* revoking the name leaves no other token of it behind.
THEOREM OneTokenPerName == TokenSpec => []NamesAreUnique
<1>1. TokenInv => NamesAreUnique
  BY DEF TokenInv, Files, NamesAreUnique
<1>2. QED  BY <1>1, TokenInduction, PTL

\* Counting requests never loses a token, nor brings a revoked one back, as
\* long as the script runs between requests.
THEOREM NoTokenIsLost == TokenSpec => []TokensAreKept
<1>1. TokenInv => TokensAreKept
  BY DEF TokenInv, CalmInv, Calm, TokensAreKept
<1>2. QED  BY <1>1, TokenInduction, PTL

\* And then no verdict is from a stale copy of the file.
THEOREM NoStaleVerdict == TokenSpec => []VerdictIsRight
<1>1. TokenInv => VerdictIsRight
  BY DEF TokenInv, CalmInv, Calm, ThreadOK, Right, VerdictIsRight
<1>2. QED  BY <1>1, TokenInduction, PTL

-----------------------------------------------------------------------------
(***************************************************************************)
(* What no overwriting can do, wherever the script and the hub run: make   *)
(* up an entry.  Every step copies entries that are already somewhere, or  *)
(* adds the one that create has just drawn a token for.                    *)
(***************************************************************************)

\* The entries in the file, in both processes, and in the threads' hands.
Copies == file \cup live \cup store.entries \cup script.entries
            \cup UNION {verify[r].read : r \in Threads}

\* A token belongs to one name and was drawn by create; and only such a token
\* is let in (require_token), also while the hub and the script lose or revive
\* each other's entries.
TokensAreIssued ==
    /\ \A e \in Copies : e.token \in minted
    /\ \A e, f \in Copies : e.token = f.token => e = f
    /\ \A r \in Threads : verify[r].granted => verify[r].token \in minted

\* A thread at its second stat has found its token in the store.
IssuedInv ==
    /\ TokensAreIssued
    /\ \A r \in Threads : verify[r].pc = "restat" => verify[r].token \in minted

\* What a step does to the entries: none is new but the one create makes.
LEMMA CopiesStep ==
    ASSUME TokenInv, TokenNext
    PROVE  \/ Copies' \subseteq Copies /\ minted' = minted
           \/ \E e \in Entry : /\ Copies' \subseteq Copies \cup {e}
                               /\ e.token \notin minted /\ minted' = minted \cup {e.token}
<1> USE DEF TokenInv, TokenTypeOK
<1> DEFINE Reads == UNION {verify[r].read : r \in Threads}
<1> DEFINE Same == UNCHANGED <<file, live, store, script, minted>>
<1>0. ASSUME Reads' \subseteq Reads \cup file,
             file' \subseteq file \cup store.entries \cup script.entries,
             store'.entries \subseteq store.entries \cup file \cup Reads,
             script'.entries \subseteq script.entries \cup file,
             live' \subseteq live
      PROVE  Copies' \subseteq Copies
  BY <1>0 DEF Copies
<1>1. ASSUME NEW r \in Threads, NEW token \in Tokens \cup {NoToken}, Request(r, token)
      PROVE  Copies' \subseteq Copies /\ minted' = minted
  <2>1. \A g \in Threads : verify'[g].read \subseteq verify[g].read
    BY <1>1 DEF Request, Asked
  <2>2. Same
    BY <1>1 DEF Request
  <2>3. QED  BY <1>0, <2>1, <2>2
<1>2. ASSUME NEW r \in Threads, Stat(r) PROVE Copies' \subseteq Copies /\ minted' = minted
  <2>1. \A g \in Threads : verify'[g].read = verify[g].read
    BY <1>2 DEF Stat
  <2>2. Same
    BY <1>2 DEF Stat
  <2>3. QED  BY <1>0, <2>1, <2>2
<1>3. ASSUME NEW r \in Threads, ReadFile(r) PROVE Copies' \subseteq Copies /\ minted' = minted
  <2>1. \A g \in Threads : verify'[g].read \subseteq verify[g].read \cup file
    BY <1>3 DEF ReadFile
  <2>2. Same
    BY <1>3 DEF ReadFile
  <2>3. QED  BY <1>0, <2>1, <2>2
<1>4. ASSUME NEW r \in Threads, Adopt(r) PROVE Copies' \subseteq Copies /\ minted' = minted
  <2>1. \A g \in Threads : verify'[g].read = verify[g].read
    BY <1>4 DEF Adopt
  <2>2. UNCHANGED <<file, live, script, minted>> /\ store'.entries = verify[r].read
    BY <1>4 DEF Adopt
  <2>3. QED  BY <1>0, <2>1, <2>2
<1>5. ASSUME NEW r \in Threads, Match(r) PROVE Copies' \subseteq Copies /\ minted' = minted
  <2>1. \A g \in Threads : verify'[g].read = verify[g].read
    BY <1>5 DEF Match, Granted
  <2>2. UNCHANGED <<store, live, script, minted>> /\ file' \in {file, store.entries}
    BY <1>5 DEF Match
  <2>3. QED  BY <1>0, <2>1, <2>2
<1>6. ASSUME NEW r \in Threads, Restat(r) PROVE Copies' \subseteq Copies /\ minted' = minted
  <2>1. \A g \in Threads : verify'[g].read = verify[g].read
    BY <1>6 DEF Restat, Granted
  <2>2. UNCHANGED <<file, live, script, minted>> /\ store'.entries = store.entries
    BY <1>6 DEF Restat
  <2>3. QED  BY <1>0, <2>1, <2>2
<1>7. ASSUME NEW r \in Threads, Respond(r) PROVE Copies' \subseteq Copies /\ minted' = minted
  <2>1. \A g \in Threads : verify'[g].read \subseteq verify[g].read
    BY <1>7 DEF Respond, Waiting
  <2>2. Same
    BY <1>7 DEF Respond
  <2>3. QED  BY <1>0, <2>1, <2>2
<1>8. ASSUME HubRestart PROVE Copies' \subseteq Copies /\ minted' = minted
  <2>1. \A g \in Threads : verify'[g].read = {}
    BY <1>8 DEF HubRestart, Waiting
  <2>2. UNCHANGED <<file, live, script, minted>> /\ store'.entries \subseteq file
    BY <1>8 DEF HubRestart
  <2>3. QED  BY <1>0, <2>1, <2>2
<1>9. ASSUME ScriptLoad PROVE Copies' \subseteq Copies /\ minted' = minted
  <2>1. UNCHANGED <<file, live, store, verify, minted>> /\ script'.entries \subseteq file
    BY <1>9 DEF ScriptLoad
  <2>2. QED  BY <1>0, <2>1
<1>10. ASSUME NEW name \in Names, NEW token \in Tokens, Create(name, token)
       PROVE  \E e \in Entry : /\ Copies' \subseteq Copies \cup {e}
                               /\ e.token \notin minted /\ minted' = minted \cup {e.token}
  <2> DEFINE e == [name |-> name, token |-> token, kdf |-> Kdf("script")]
  <2>1. e \in Entry /\ e.token = token
    BY DEF Entry, Kdf
  <2>2. file' = script.entries \cup {e} /\ live' = live \cup {e} /\ script'.entries = {}
    BY <1>10 DEF Create, ScriptWrites, NoScript
  <2>3. UNCHANGED <<store, verify>> /\ token \notin minted /\ minted' = minted \cup {token}
    BY <1>10 DEF Create
  <2> HIDE DEF e
  <2>4. Copies' \subseteq Copies \cup {e}
    BY <2>2, <2>3 DEF Copies
  <2>5. QED  BY <2>1, <2>3, <2>4
<1>11. ASSUME NEW name \in Names, Revoke(name)
       PROVE  Copies' \subseteq Copies /\ minted' = minted
  <2>1. file' \subseteq script.entries /\ live' \subseteq live /\ script'.entries = {}
    BY <1>11 DEF Revoke, ScriptWrites, NoScript
  <2>2. UNCHANGED <<store, verify, minted>>
    BY <1>11 DEF Revoke
  <2>3. QED  BY <1>0, <2>1, <2>2
<1>12. ASSUME ScriptEnds PROVE Copies' \subseteq Copies /\ minted' = minted
  <2>1. UNCHANGED <<file, live, store, verify, minted>> /\ script'.entries = {}
    BY <1>12 DEF ScriptEnds, NoScript
  <2>2. QED  BY <1>0, <2>1
<1>13. QED  BY <1>1, <1>2, <1>3, <1>4, <1>5, <1>6, <1>7, <1>8, <1>9, <1>10, <1>11, <1>12 DEF TokenNext

\* What a step does to a thread's verdict: it stays, it is dropped with the
\* request, or it is a match among the entries of the store.
LEMMA VerdictStep ==
    ASSUME TokenInv, IssuedInv, TokenNext, NEW r \in Threads,
           verify'[r].pc = "restat" \/ verify'[r].granted
    PROVE  verify'[r].token \in minted
<1> USE DEF TokenInv, TokenTypeOK, IssuedInv, TokensAreIssued
<1>1. ASSUME verify'[r].token = verify[r].token,
             \/ verify[r].pc = "restat"
             \/ verify[r].granted
             \/ \E e \in store.entries : VerifyToken(e, verify[r].token)
      PROVE  verify'[r].token \in minted
  BY <1>1 DEF VerifyToken, Copies
<1>2. ASSUME NEW g \in Threads, NEW token \in Tokens \cup {NoToken}, Request(g, token)
      PROVE  verify'[r].token \in minted
  BY <1>1, <1>2 DEF Request, Asked
<1>3. ASSUME NEW g \in Threads, Stat(g) \/ ReadFile(g) \/ Adopt(g)
      PROVE  verify'[r].token \in minted
  BY <1>1, <1>3 DEF Stat, ReadFile, Adopt
<1>4. ASSUME NEW g \in Threads, Match(g) PROVE verify'[r].token \in minted
  <2>1. verify'[r].token = verify[r].token
    BY <1>4 DEF Match, Granted
  <2>2. \/ verify[r].pc = "restat" \/ verify[r].granted
        \/ \E e \in store.entries : VerifyToken(e, verify[r].token)
    BY <1>4 DEF Match, Granted
  <2>3. QED  BY <1>1, <2>1, <2>2
<1>5. ASSUME NEW g \in Threads, Restat(g) PROVE verify'[r].token \in minted
  BY <1>1, <1>5 DEF Restat, Granted
<1>6. ASSUME NEW g \in Threads, Respond(g) PROVE verify'[r].token \in minted
  BY <1>1, <1>6 DEF Respond, Waiting
<1>7. ASSUME HubRestart PROVE verify'[r].token \in minted
  BY <1>7 DEF HubRestart, Waiting
<1>8. ASSUME UNCHANGED verify PROVE verify'[r].token \in minted
  BY <1>1, <1>8
<1>9. QED  BY <1>2, <1>3, <1>4, <1>5, <1>6, <1>7, <1>8
             DEF TokenNext, ScriptLoad, Create, Revoke, ScriptEnds

\* No token is made up: whatever the hub and the script overwrite, a token has
\* one name, and one that is let in was created.
THEOREM NoTokenIsMadeUp == TokenSpec => []TokensAreIssued
<1>1. TokenInit => IssuedInv
  BY DEF TokenInit, IssuedInv, TokensAreIssued, Copies, Waiting, NoScript
<1>2. TokenInv /\ IssuedInv /\ [TokenNext]_tokenVars => IssuedInv'
  <2> SUFFICES ASSUME TokenInv, IssuedInv, [TokenNext]_tokenVars PROVE IssuedInv'
    OBVIOUS
  <2>1. CASE TokenNext
    <3>1. minted \subseteq minted'
      BY <2>1, CopiesStep
    <3>2. \A r \in Threads : /\ verify'[r].granted => verify'[r].token \in minted'
                             /\ verify'[r].pc = "restat" => verify'[r].token \in minted'
      BY <2>1, <3>1, VerdictStep
    <3>3. (\A e \in Copies : e.token \in minted)'
      BY <2>1, CopiesStep DEF IssuedInv, TokensAreIssued
    <3>4. (\A e, f \in Copies : e.token = f.token => e = f)'
      <4>1. CASE Copies' \subseteq Copies
        BY <4>1 DEF IssuedInv, TokensAreIssued
      <4>2. ASSUME NEW e \in Entry, Copies' \subseteq Copies \cup {e}, e.token \notin minted
            PROVE  (\A d, f \in Copies : d.token = f.token => d = f)'
        <5>1. \A f \in Copies : f.token # e.token
          BY <4>2 DEF IssuedInv, TokensAreIssued
        <5>2. QED  BY <4>2, <5>1 DEF IssuedInv, TokensAreIssued
      <4>3. QED  BY <2>1, <4>1, <4>2, CopiesStep
    <3>5. QED  BY <3>2, <3>3, <3>4 DEF IssuedInv, TokensAreIssued
  <2>2. CASE UNCHANGED tokenVars
    BY <2>2 DEF tokenVars, IssuedInv, TokensAreIssued, Copies
  <2>3. QED  BY <2>1, <2>2
<1>3. IssuedInv => TokensAreIssued
  BY DEF IssuedInv
<1>4. QED  BY <1>1, <1>2, <1>3, TokenInduction, PTL DEF TokenSpec
=============================================================================
