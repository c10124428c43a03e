---------------------------- MODULE ClientTokens ----------------------------
(***************************************************************************)
(* lib/local-client-tokens.ts, lib/local-bridge.ts and the bridge command: *)
(* the file of local client tokens, changed by commands and by every       *)
(* verification, and the loopback bridge that forwards a request to the    *)
(* runtime proxy once its bearer token is verified.  All changes run under *)
(* the store's lock (FileLock) and compare the file's modification time,   *)
(* for writers that take no lock.                                          *)
(***************************************************************************)
EXTENDS Integers, FiniteSets

CONSTANTS Clients, Tokens, NoToken, NoClient,
          MaxTokenTries,   \* attempts at a change whose file moved
          MaxForeign,      \* changes by a writer that takes no lock
          MaxTokenCalls    \* commands and requests

ASSUME TokenAssumption == Tokens # {} /\ NoToken \notin Tokens /\ NoClient \notin Clients

VARIABLES tokens,    \* token -> absent, live or revoked, as on disk
          clients,   \* commands and bridge requests
          tokenLock,
          minted, issued,  \* tokens created, and shown to the user
          barred,    \* tokens whose revocation was acknowledged
          denied,    \* history: a read of the file failed
          foreign,   \* changes without the lock so far
          bridge,    \* the options of the running bridge
          calls      \* commands and requests left

tokenVars == <<tokens, clients, tokenLock, minted, issued, barred, denied, foreign, bridge, calls>>

States == {"absent", "live", "revoked"}
Unknown == [t \in Tokens |-> "absent"]
AtRest == [at |-> "idle", op |-> "none", tok |-> NoToken, new |-> NoToken, moved |-> FALSE, view |-> Unknown,
           snap |-> Unknown, tries |-> 0, late |-> FALSE, verified |-> FALSE]

\* startLocalBridge refuses to lend the proxy's key to callers it does not verify.
MayStartAny(auth, key) == TRUE
MayStart(auth, key) == ~key \/ auth

TokenInit ==
  /\ minted = {CHOOSE t \in Tokens : TRUE} /\ issued = minted
  /\ tokens = [t \in Tokens |-> IF t \in issued THEN "live" ELSE "absent"]
  /\ tokenLock = NoClient
  /\ clients = [c \in Clients |-> AtRest]
  /\ barred = {} /\ denied = FALSE /\ foreign = 0 /\ calls = MaxTokenCalls
  /\ \E auth, key \in BOOLEAN : MayStart(auth, key) /\ bridge = [auth |-> auth, key |-> key]

-----------------------------------------------------------------------------
(* Callers. *)

Begins(c, op, t, at) ==
  /\ clients[c].at = "idle" /\ calls > 0 /\ calls' = calls - 1
  /\ clients' = [clients EXCEPT ![c] = [AtRest EXCEPT !.at = at, !.op = op, !.tok = t, !.snap = IF op = "save" THEN tokens ELSE Unknown,
                                                   !.late = t \in barred]]

\* addLocalClientToken creates the record before it asks for the lock.
addLocalClientToken(c) == \E t \in Tokens \ minted :
  /\ clients[c].at = "idle" /\ calls > 0 /\ calls' = calls - 1
  /\ clients' = [clients EXCEPT ![c] = [AtRest EXCEPT !.at = "waiting", !.op = "add", !.new = t]]
  /\ minted' = minted \cup {t}
  /\ UNCHANGED <<tokens, tokenLock, issued, barred, denied, foreign, bridge>>
rotateLocalClientToken(c) == \E t \in issued :
  /\ Begins(c, "rotate", t, "waiting")
  /\ UNCHANGED <<tokens, tokenLock, minted, issued, barred, denied, foreign, bridge>>
revokeLocalClientToken(c) == \E t \in issued :
  /\ Begins(c, "revoke", t, "waiting")
  /\ UNCHANGED <<tokens, tokenLock, minted, issued, barred, denied, foreign, bridge>>
\* saveLocalClientTokenStore, with a store its caller loaded some time ago.
saveLocalClientTokenStore(c) ==
  /\ Begins(c, "save", NoToken, "waiting")
  /\ UNCHANGED <<tokens, tokenLock, minted, issued, barred, denied, foreign, bridge>>
\* A request reaches the bridge.
BridgeRequest(c) == \E t \in issued :
  /\ Begins(c, "verify", t, IF bridge.auth THEN "waiting" ELSE "forward")
  /\ UNCHANGED <<tokens, tokenLock, minted, issued, barred, denied, foreign, bridge>>

-----------------------------------------------------------------------------
(* updateLocalClientTokenStore. *)

\* The lock, and the modification time the change will be compared with.
TokenLocked(c) ==
  /\ clients[c].at = "waiting" /\ tokenLock = NoClient
  /\ tokenLock' = c
  /\ clients' = [clients EXCEPT ![c].at = "read", ![c].moved = FALSE]
  /\ UNCHANGED <<tokens, minted, issued, barred, denied, foreign, bridge, calls>>

\* mergeTokenStoreRecords: nothing is dropped and nothing comes back to life.
MergedForgetting(view, snap) ==
  [t \in Tokens |-> IF snap[t] = "live" /\ view[t] = "revoked" THEN "revoked" ELSE snap[t]]
mergeTokenStoreRecords(view, snap) ==
  [t \in Tokens |-> IF "revoked" \in {view[t], snap[t]} THEN "revoked"
                    ELSE IF "live" \in {view[t], snap[t]} THEN "live" ELSE "absent"]

\* The change each operation makes of the store it is handed.
Mutated(v) ==
  CASE v.op = "add" -> [v.view EXCEPT ![v.new] = "live"]
    [] v.op = "rotate" -> [v.view EXCEPT ![v.tok] = "revoked", ![v.new] = "live"]
    [] v.op = "revoke" -> [v.view EXCEPT ![v.tok] = "revoked"]
    [] v.op = "save" -> mergeTokenStoreRecords(v.view, v.snap)
    [] v.op = "verify" -> v.view

\* Its target must be live, except for an add or a save.
AppliesToAny(v) == v.op \notin {"add", "save"} => v.view[v.tok] # "absent"
Applies(v) == v.op \notin {"add", "save"} => v.view[v.tok] = "live"

TokenLeaves(c, next) ==
  /\ tokenLock' = NoClient
  /\ clients' = [clients EXCEPT ![c] = next]

VerifiedFor(c) ==
  [AtRest EXCEPT !.at = "forward", !.op = "verify", !.tok = clients[c].tok, !.late = clients[c].late,
                 !.verified = TRUE]

\* loadLocalClientTokenStore: a file that cannot be read five times is an empty store.
Loads(fails) == IF fails THEN Unknown ELSE tokens

\* The store is read and nothing is to change: the caller is told so.
TokenRefused(c) == \E fails \in BOOLEAN :
  /\ clients[c].at = "read" /\ ~Applies([clients[c] EXCEPT !.view = Loads(fails)])
  /\ denied' = (denied \/ fails)
  /\ TokenLeaves(c, AtRest)
  /\ UNCHANGED <<tokens, minted, issued, barred, foreign, bridge, calls>>
\* The last use was recorded less than a minute ago: verified without a write.
VerifiedUnwritten(c) ==
  /\ clients[c].at = "read" /\ clients[c].op = "verify" /\ Applies([clients[c] EXCEPT !.view = tokens])
  /\ TokenLeaves(c, VerifiedFor(c))
  /\ UNCHANGED <<tokens, minted, issued, barred, denied, foreign, bridge, calls>>
\* The store is changed in memory; a rotation mints its token once.
TokenMutate(c) == \E fails \in BOOLEAN :
  LET v == [clients[c] EXCEPT !.view = Loads(fails)]
      mints == v.op = "rotate" /\ v.new = NoToken
  IN
    /\ v.at = "read" /\ Applies(v)
    /\ \E new \in IF mints THEN Tokens \ minted ELSE {v.new} :
         /\ minted' = IF mints THEN minted \cup {new} ELSE minted
         /\ clients' = [clients EXCEPT ![c] = [v EXCEPT !.at = "write", !.new = new,
                                                       !.view = Mutated([v EXCEPT !.new = new])]]
    /\ denied' = (denied \/ fails)
    /\ UNCHANGED <<tokens, tokenLock, issued, barred, foreign, bridge, calls>>

\* assertJsonStoreFileMtimeUnchanged: the file's time is not the one that was taken.
FileMovedNever(c) == FALSE
FileMoved(c) == clients[c].moved

\* The rename, and the answer to the caller.
TokenRename(c) ==
  LET v == clients[c] IN
    /\ v.at = "write" /\ ~FileMoved(c)
    /\ tokens' = v.view
    /\ TokenLeaves(c, IF v.op = "verify" THEN VerifiedFor(c) ELSE AtRest)
    /\ issued' = IF v.new # NoToken THEN issued \cup {v.new} ELSE issued
    /\ barred' = IF v.op \in {"rotate", "revoke"} THEN barred \cup {v.tok} ELSE barred
    /\ UNCHANGED <<minted, denied, foreign, bridge, calls>>
\* withJsonStoreCasRetry starts over with the store as it is now.
TokenRetries(c) ==
  /\ clients[c].at = "write" /\ FileMoved(c) /\ clients[c].tries + 1 < MaxTokenTries
  /\ clients' = [clients EXCEPT ![c].at = "read", ![c].tries = @ + 1, ![c].moved = FALSE]
  /\ UNCHANGED <<tokens, tokenLock, minted, issued, barred, denied, foreign, bridge, calls>>
\* The rename fails for good, or the file moved once too often: the caller gets the error.
TokenGivesUp(c) ==
  /\ clients[c].at = "write"
  /\ FileMoved(c) => clients[c].tries + 1 = MaxTokenTries
  /\ TokenLeaves(c, AtRest)
  /\ UNCHANGED <<tokens, minted, issued, barred, denied, foreign, bridge, calls>>

-----------------------------------------------------------------------------
(* The bridge, once the token is verified, and writers without the lock. *)

\* forward: the proxy answers or cannot be reached, and the caller is answered.
forward(c) ==
  /\ clients[c].at = "forward"
  /\ clients' = [clients EXCEPT ![c] = AtRest]
  /\ UNCHANGED <<tokens, tokenLock, minted, issued, barred, denied, foreign, bridge, calls>>

\* A token revoked in the file itself (a comparison and its rename are one step: an
\* edit between them is lost).
ForeignRevokes == \E t \in issued :
  /\ foreign < MaxForeign /\ tokens[t] = "live"
  /\ tokens' = [tokens EXCEPT ![t] = "revoked"]
  /\ clients' = [c \in Clients |-> [clients[c] EXCEPT !.moved = clients[c].at \in {"read", "write"}]]
  /\ barred' = barred \cup {t} /\ foreign' = foreign + 1
  /\ UNCHANGED <<tokenLock, minted, issued, denied, bridge, calls>>

TokenNext ==
  \/ ForeignRevokes
  \/ \E c \in Clients :
       \/ addLocalClientToken(c) \/ rotateLocalClientToken(c) \/ revokeLocalClientToken(c)
       \/ saveLocalClientTokenStore(c) \/ BridgeRequest(c)
       \/ TokenLocked(c) \/ TokenRefused(c) \/ VerifiedUnwritten(c) \/ TokenMutate(c)
       \/ TokenRename(c) \/ TokenRetries(c) \/ TokenGivesUp(c)
       \/ forward(c)

TokenSpec == TokenInit /\ [][TokenNext]_tokenVars

-----------------------------------------------------------------------------
\* A request that comes in after its token's revocation was acknowledged is not
\* forwarded, whoever saves an older copy of the store meanwhile.
RevokedStaysOut ==
  \A c \in Clients : bridge.auth /\ ~denied /\ clients[c].op = "verify" /\ clients[c].late
                       => clients[c].at # "forward"

\* A token that was shown to the user stays in the file, unless the file could not be read.
IssuedKept == denied \/ \A t \in issued : tokens[t] # "absent"

\* A request that travels under the proxy's own key was verified.
KeyNeedsToken ==
  \A c \in Clients : clients[c].at = "forward" /\ bridge.key => clients[c].verified

\* The bridge admits who holds a live token and nobody else.
BridgeGuarded == RevokedStaysOut /\ IssuedKept /\ KeyNeedsToken

\* A step never brings a revoked token back to life, not even one that a writer
\* without the lock revoked while a change was under way (unless a read failed).
RevocationFinal ==
  \A t \in Tokens : tokens[t] = "revoked" /\ ~denied => tokens'[t] # "live"
=============================================================================
