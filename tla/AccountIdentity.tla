-------------------------- MODULE AccountIdentity --------------------------
(***************************************************************************)
(* Which stored accounts are the same account (lib/storage.ts,             *)
(* lib/storage/identity.ts, account-match-utils.ts).                       *)
(*                                                                         *)
(* A row carries up to three identity keys: a workspace id, an e-mail and  *)
(* a refresh token; any of the first two may be absent.  Rows are matched  *)
(* in four tiers, each with its vetoes, and of two rows for one account    *)
(* the one used last is kept.  findMatchingAccountIndex answers by         *)
(* scanning the rows; the deduplication that every load runs answers the   *)
(* same question from indexes it keeps up to date while rows are appended  *)
(* and replaced, and repeats its pass until nothing merges.  The scan is   *)
(* the reference here, the indexed passes are the state machine.           *)
(***************************************************************************)
EXTENDS Naturals, FiniteSets, Sequences, SequencesExt

CONSTANTS Absent, Ids, Mails, Tokens, MaxUsed, MaxRows

ASSUME IdentityAssumption ==
  /\ Absent \notin Ids \cup Mails \cup Tokens
  /\ MaxUsed \in Nat \ {0} /\ MaxRows \in Nat \ {0}
  /\ {} \notin {Ids, Mails, Tokens}

\* lastUsed and addedAt order rows lexicographically: one number stands for both.
Row == [id: Ids \cup {Absent}, mail: Mails \cup {Absent}, token: Tokens, used: 1..MaxUsed]

-----------------------------------------------------------------------------
(* The linear scan. *)

\* Of several matches the one used last; the later one of a tie.
NewestMatching(rows, S) ==
  CHOOSE i \in S : \A j \in S \ {i} :
    rows[j].used < rows[i].used \/ (rows[j].used = rows[i].used /\ j < i)

CompositeMatch(rows, c) ==
  {i \in DOMAIN rows : /\ Absent \notin {c.id, c.mail}
                       /\ rows[i].id = c.id /\ rows[i].mail = c.mail}

\* An e-mail whose rows name two workspaces matches nobody.
SafeEmailMatch(rows, c) ==
  LET same == {i \in DOMAIN rows : c.mail # Absent /\ rows[i].mail = c.mail}
      ids  == ({rows[i].id : i \in same} \cup {c.id}) \ {Absent}
  IN IF Cardinality(ids) > 1 THEN {} ELSE same

Conflict(a, b) == Absent \notin {a, b} /\ a # b

CompatibleTokenMatch(rows, c) ==
  LET same == {i \in DOMAIN rows : rows[i].token = c.token}
  IN IF \/ \E i \in same : Conflict(rows[i].id, c.id) \/ Conflict(rows[i].mail, c.mail)
        \/ c.id = Absent /\ c.mail = Absent /\ Cardinality(same) > 1
     THEN {} ELSE same

UniqueIdMatch(rows, c, bareId) ==
  LET same == {i \in DOMAIN rows : c.id # Absent /\ rows[i].id = c.id}
  IN IF \/ c.mail = Absent /\ ~bareId
        \/ Cardinality(same) # 1
        \/ \E i \in same : Conflict(rows[i].mail, c.mail)
     THEN {} ELSE same

\* The row for candidate c, or 0.
FindMatching(rows, c, bareId) ==
  LET tiers == <<CompositeMatch(rows, c), SafeEmailMatch(rows, c),
                 CompatibleTokenMatch(rows, c), UniqueIdMatch(rows, c, bareId)>>
      hit   == {n \in 1..4 : tiers[n] # {}}
  IN IF hit = {} THEN 0
     ELSE NewestMatching(rows, tiers[CHOOSE n \in hit : \A k \in hit : n <= k])

Clamp(i, n) == IF n = 0 THEN 0 ELSE IF i < 1 THEN 1 ELSE IF i > n THEN n ELSE i

ResolveSelection(rows, c, fallback) ==
  LET at == FindMatching(rows, c, TRUE) IN IF at # 0 THEN at ELSE Clamp(fallback, Len(rows))

\* Deduplication as the scan defines it: the reference for the indexed passes.
DedupOne(kept, c) ==
  LET at == FindMatching(kept, c, FALSE)
  IN CASE at = 0                   -> Append(kept, c)
       [] kept[at].used > c.used   -> kept
       [] OTHER                    -> [kept EXCEPT ![at] = c]

DedupPass(rows) == FoldLeft(DedupOne, <<>>, rows)
Deduplicated(rows) == FoldLeft(LAMBDA acc, n : DedupPass(acc), rows, rows)

\* normalizeAccountStorage: the selection follows its account; the pin is a position
\* that only has to exist.  0 is no pin.
Normalized(file) ==
  LET rows == Deduplicated(file.rows)
      at   == Clamp(file.active, Len(file.rows))
  IN [rows   |-> rows,
      active |-> IF rows = <<>> THEN 0 ELSE ResolveSelection(rows, file.rows[at], at),
      pin    |-> IF file.pin \in DOMAIN rows THEN file.pin ELSE 0]

-----------------------------------------------------------------------------
(* The indexed passes. *)

VARIABLES
  given,     \* the rows that were read
  scan, at,  \* the rows of this pass, and the next of them
  kept,      \* the survivors so far
  index,     \* the four indexes over the survivors
  again,     \* a pass has been made before this one
  outcome    \* the normalised file, or Absent

identityVars == <<given, scan, at, kept, index, again, outcome>>

None0(S) == [x \in S |-> 0]

EmptyIndex ==
  [pair  |-> [k \in Ids \X Mails |-> {}],
   mail  |-> [k \in Mails |-> [live |-> {}, ids |-> None0(Ids)]],
   token |-> [k \in Tokens |-> [live |-> {}, ids |-> None0(Ids), mails |-> None0(Mails)]],
   owner |-> [k \in Ids |-> {}]]

Bump(counts, key, up) ==
  IF key = Absent THEN counts
  ELSE [counts EXCEPT ![key] = IF up THEN @ + 1 ELSE IF @ = 0 THEN 0 ELSE @ - 1]

\* What a live entry remembers: the slot, and how recent its row was when it was set.
Entry(i, r) == <<i, r.used>>
Drop(live, i) == {e \in live : e[1] # i}
Join(live, i, r) == Drop(live, i) \cup {Entry(i, r)}

AddToIndexes(ix, i, r) ==
  [pair  |-> IF Absent \in {r.id, r.mail} THEN ix.pair
             ELSE [ix.pair EXCEPT ![<<r.id, r.mail>>] = Join(@, i, r)],
   mail  |-> IF r.mail = Absent THEN ix.mail
             ELSE [ix.mail EXCEPT ![r.mail] = [live |-> Join(@.live, i, r), ids |-> Bump(@.ids, r.id, TRUE)]],
   token |-> [ix.token EXCEPT ![r.token] = [live  |-> Join(@.live, i, r), ids |-> Bump(@.ids, r.id, TRUE),
                                            mails |-> Bump(@.mails, r.mail, TRUE)]],
   owner |-> IF r.id = Absent THEN ix.owner ELSE [ix.owner EXCEPT ![r.id] = @ \cup {i}]]

\* Bug: the counts of the token's owners keep the replaced row.
RemoveFromIndexesLiveOnly(ix, i, r) ==
  [pair  |-> IF Absent \in {r.id, r.mail} THEN ix.pair
             ELSE [ix.pair EXCEPT ![<<r.id, r.mail>>] = Drop(@, i)],
   mail  |-> IF r.mail = Absent THEN ix.mail
             ELSE [ix.mail EXCEPT ![r.mail] = [live |-> Drop(@.live, i), ids |-> Bump(@.ids, r.id, FALSE)]],
   token |-> [ix.token EXCEPT ![r.token].live = Drop(@, i)],
   owner |-> IF r.id = Absent THEN ix.owner ELSE [ix.owner EXCEPT ![r.id] = @ \ {i}]]

RemoveFromIndexes(ix, i, r) ==
  [pair  |-> IF Absent \in {r.id, r.mail} THEN ix.pair
             ELSE [ix.pair EXCEPT ![<<r.id, r.mail>>] = Drop(@, i)],
   mail  |-> IF r.mail = Absent THEN ix.mail
             ELSE [ix.mail EXCEPT ![r.mail] = [live |-> Drop(@.live, i), ids |-> Bump(@.ids, r.id, FALSE)]],
   token |-> [ix.token EXCEPT ![r.token] = [live  |-> Drop(@.live, i), ids |-> Bump(@.ids, r.id, FALSE),
                                            mails |-> Bump(@.mails, r.mail, FALSE)]],
   owner |-> IF r.id = Absent THEN ix.owner ELSE [ix.owner EXCEPT ![r.id] = @ \ {i}]]

\* The heap's answer: the live entry used last, the higher slot of a tie; 0 if none.
NewestIndex(live) ==
  IF live = {} THEN 0
  ELSE (CHOOSE e \in live : \A f \in live \ {e} : f[2] < e[2] \/ (f[2] = e[2] /\ f[1] < e[1]))[1]

Counted(counts) == {x \in DOMAIN counts : counts[x] > 0}

PairAnswer(ix, c) == IF Absent \in {c.id, c.mail} THEN 0 ELSE NewestIndex(ix.pair[<<c.id, c.mail>>])

MailAnswer(ix, c) ==
  IF c.mail = Absent THEN 0
  ELSE LET b == ix.mail[c.mail]
       IN IF Cardinality(Counted(b.ids) \cup ({c.id} \ {Absent})) <= 1 THEN NewestIndex(b.live) ELSE 0

TokenAnswer(ix, c) ==
  LET b == ix.token[c.token]
  IN IF \/ c.id # Absent /\ Counted(b.ids) \notin {{}, {c.id}}
        \/ c.mail # Absent /\ Counted(b.mails) \notin {{}, {c.mail}}
        \/ c.id = Absent /\ c.mail = Absent /\ Cardinality(b.live) > 1
     THEN 0 ELSE NewestIndex(b.live)

OwnerAnswer(ix, rows, c) ==
  IF Absent \in {c.id, c.mail} \/ Cardinality(ix.owner[c.id]) # 1 THEN 0
  ELSE LET only == CHOOSE i \in ix.owner[c.id] : TRUE
       IN IF rows[only].mail \in {Absent, c.mail} THEN only ELSE 0

IndexedMatch(ix, rows, c) ==
  LET answers == <<PairAnswer(ix, c), MailAnswer(ix, c), TokenAnswer(ix, c), OwnerAnswer(ix, rows, c)>>
      hit     == {n \in 1..4 : answers[n] # 0}
  IN IF hit = {} THEN 0 ELSE answers[CHOOSE n \in hit : \A k \in hit : n <= k]

\* Names are interchangeable, so the first row may as well carry the first of each kind.
First(S) == CHOOSE x \in S : TRUE
FirstRow == {r \in Row : /\ r.id \in {Absent, First(Ids)} /\ r.mail \in {Absent, First(Mails)}
                        /\ r.token = First(Tokens)}
Pools(n) == {<<>>} \cup {<<r>> \o s : r \in FirstRow, s \in SeqOf(Row, n - 1)}

Reads(rows) ==
  /\ given = rows
  /\ scan = rows /\ at = 1 /\ kept = <<>> /\ index = EmptyIndex
  /\ again = FALSE /\ outcome = Absent

IdentityInit == \E rows \in Pools(MaxRows) : Reads(rows)

\* One candidate of a pass.
Candidate ==
  LET c == scan[at]
      i == IndexedMatch(index, kept, c)
  IN /\ outcome = Absent /\ at <= Len(scan)
     /\ at' = at + 1
     /\ \/ /\ i = 0
           /\ kept' = Append(kept, c)
           /\ index' = AddToIndexes(index, Len(kept) + 1, c)
        \/ /\ i # 0 /\ kept[i].used > c.used
           /\ UNCHANGED <<kept, index>>
        \/ /\ i # 0 /\ kept[i].used <= c.used
           /\ kept' = [kept EXCEPT ![i] = c]
           /\ index' = AddToIndexes(RemoveFromIndexes(index, i, kept[i]), i, c)
     /\ UNCHANGED <<given, scan, again, outcome>>

\* Bug: one pass is taken for enough.
PassMergedOnce == FALSE
\* A pass that merged something, and the first, is followed by another.
PassMerged == ~again \/ Len(kept) < Len(scan)

PassAgain ==
  /\ outcome = Absent /\ at > Len(scan) /\ PassMerged
  /\ scan' = kept /\ at' = 1 /\ kept' = <<>> /\ index' = EmptyIndex /\ again' = TRUE
  /\ UNCHANGED <<given, outcome>>

\* Bug: the position is kept where the account should be followed.
SelectionAfterPosition(rows, a) == Clamp(a, Len(rows))
SelectionAfter(rows, a) == IF rows = <<>> THEN 0 ELSE ResolveSelection(rows, given[a], a)

\* The selected position is looked at last, so it is chosen here; 0 when no row was read.
Normalizes ==
  /\ outcome = Absent /\ at > Len(scan) /\ ~PassMerged
  /\ \E a \in IF given = <<>> THEN {0} ELSE DOMAIN given :
       outcome' = [rows |-> kept, was |-> a, active |-> SelectionAfter(kept, a)]
  /\ UNCHANGED <<given, scan, at, kept, index, again>>

IdentityNext == Candidate \/ PassAgain \/ Normalizes

-----------------------------------------------------------------------------
(* Properties *)

\* The indexes answer what a scan of the survivors would (deduplicateAccountsByIdentityPass
\* against findMatchingAccountIndex): a replacement re-keys every index of the row it replaces.
IndexAgrees ==
  outcome = Absent /\ at <= Len(scan) =>
    IndexedMatch(index, kept, scan[at]) = FindMatching(kept, scan[at], FALSE)

\* No survivor is still the same account as an earlier one: loading what was saved changes
\* nothing (the fixpoint of deduplicateAccountsByIdentity).
DedupSettled ==
  outcome # Absent =>
    \A i \in DOMAIN outcome.rows : FindMatching(SubSeq(outcome.rows, 1, i - 1), outcome.rows[i], FALSE) = 0

\* The selected account is still the selected one when its row survived, wherever it moved
\* to (resolveAccountSelectionIndex in normalizeAccountStorage).
SelectionFollows ==
  outcome # Absent /\ outcome.rows # <<>> =>
    LET r == given[outcome.was]
    IN r \in Range(outcome.rows) => outcome.rows[outcome.active] = r
=============================================================================
