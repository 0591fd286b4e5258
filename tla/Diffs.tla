------------------------------- MODULE Diffs --------------------------------
(* The diff service: the unified diff and the diff of running text.        *)
EXTENDS Integers, Sequences, SequencesExt, FiniteSets, FiniteSetsExt

-----------------------------------------------------------------------------
(***************************************************************************)
(* The unified diff with full context of two texts (diff/unified).  A text *)
(* is a sequence of characters; a line is its characters and whether a     *)
(* newline ended it.  A diff is the two counts of its only hunk and its    *)
(* records; marked says that the no-newline marker follows the record.     *)
(***************************************************************************)
CONSTANTS
  DiffChars,    \* characters of the inputs, "\n" and " " among them
  MaxText,      \* bound: length of an input
  MaxCells      \* cells the LCS table may have (4,000,000)

Texts == BoundedSeq(DiffChars, MaxText)

normalizeText(s) == SelectSeq(s, LAMBDA c : c \notin {" ", "\t"})

RECURSIVE splitLines(_)
splitLines(s) ==
  IF s = <<>> THEN <<>>
  ELSE LET newlines == {k \in DOMAIN s : s[k] = "\n"}
           i == Min(newlines)
       IN IF newlines = {} THEN <<[text |-> s, nl |-> FALSE]>>
          ELSE <<[text |-> SubSeq(s, 1, i - 1), nl |-> TRUE]>> \o splitLines(SubSeq(s, i + 1, Len(s)))

-----------------------------------------------------------------------------
(***************************************************************************)
(* The edit script.                                                        *)
(***************************************************************************)
\* dp[i][j]: length of the longest common subsequence of the first i and j lines
Table(a, b) ==
  LET dp[i \in 0..Len(a), j \in 0..Len(b)] ==
        IF i = 0 \/ j = 0 THEN 0
        ELSE IF a[i] = b[j] THEN dp[i - 1, j - 1] + 1
        ELSE IF dp[i - 1, j] >= dp[i, j - 1] THEN dp[i - 1, j] ELSE dp[i, j - 1]
  IN dp

InsertsWhilePossible(up, left) == TRUE   \* a bug: the table is not consulted
Insertion(up, left) == left >= up

RECURSIVE Backtrack(_, _, _, _, _)
Backtrack(a, b, dp, i, j) ==
  IF i = 0 /\ j = 0 THEN <<>>
  ELSE IF i > 0 /\ j > 0 /\ a[i] = b[j] THEN Append(Backtrack(a, b, dp, i - 1, j - 1), "=")
  ELSE IF j > 0 /\ (i = 0 \/ Insertion(dp[i - 1, j], dp[i, j - 1]))
       THEN Append(Backtrack(a, b, dp, i, j - 1), "+")
  ELSE Append(Backtrack(a, b, dp, i - 1, j), "-")

lcs(a, b) == Backtrack(a, b, Table(a, b), Len(a), Len(b))

TooLarge == <<"ErrTooLarge">>

CommonPrefix(a, b) ==
  Max({k \in 0..Min({Len(a), Len(b)}) : SubSeq(a, 1, k) = SubSeq(b, 1, k)})

CommonSuffix(a, b, p) ==
  Max({k \in 0..(Min({Len(a), Len(b)}) - p) :
         SubSeq(a, Len(a) - k + 1, Len(a)) = SubSeq(b, Len(b) - k + 1, Len(b))})

boundedEdits(a, b) ==
  LET p == CommonPrefix(a, b)
      s == CommonSuffix(a, b, p)
      am == SubSeq(a, p + 1, Len(a) - s)
      bm == SubSeq(b, p + 1, Len(b) - s)
  IN IF am # <<>> /\ bm # <<>> /\ (Len(am) + 1) * (Len(bm) + 1) > MaxCells THEN TooLarge
     ELSE [k \in 1..p |-> "="] \o lcs(am, bm) \o [k \in 1..s |-> "="]

-----------------------------------------------------------------------------
(***************************************************************************)
(* The output.                                                             *)
(***************************************************************************)
Count(ops, kinds) == Len(SelectSeq(ops, LAMBDA op : op \in kinds))

formatUnified(a, b, ops) ==
  [old |-> Count(ops, {"=", "-"}), new |-> Count(ops, {"=", "+"}),
   records |->
     [k \in DOMAIN ops |->
        LET line == IF ops[k] = "+" THEN b[Count(SubSeq(ops, 1, k), {"=", "+"})]
                    ELSE a[Count(SubSeq(ops, 1, k), {"=", "-"})]
        IN [sigil |-> ops[k], text |-> line.text, marked |-> ~line.nl]]]

\* what PHP writes for equal contents: the last element of the split included
RECURSIVE Split(_)
Split(s) ==
  LET newlines == {k \in DOMAIN s : s[k] = "\n"}
  IN IF newlines = {} THEN <<s>>
     ELSE <<SubSeq(s, 1, Min(newlines) - 1)>> \o Split(SubSeq(s, Min(newlines) + 1, Len(s)))

buildIdenticalDiff(s) ==
  LET parts == Split(s)
  IN [old |-> Len(parts), new |-> Len(parts),
      records |-> [k \in DOMAIN parts |-> [sigil |-> "=", text |-> parts[k], marked |-> FALSE]]]

NoDiff == [status |-> "none"]

UnifiedGenerate(old, new, normalize) ==
  LET u == IF normalize THEN normalizeText(old) ELSE old
      v == IF normalize THEN normalizeText(new) ELSE new
      a == splitLines(u)
      b == splitLines(v)
      ops == boundedEdits(a, b)
  IN IF a = b THEN [status |-> "equal", u |-> u, v |-> v, diff |-> buildIdenticalDiff(u)]
     ELSE IF ops = TooLarge THEN [status |-> "too_large", u |-> u, v |-> v]
     ELSE [status |-> "differs", u |-> u, v |-> v, diff |-> formatUnified(a, b, ops)]

VARIABLE unified   \* one request: the old text, then the result

UnifiedInit == unified \in [old : Texts, result : {NoDiff}]

UnifiedNext ==
  /\ unified.result = NoDiff
  /\ \E new \in Texts, normalize \in BOOLEAN :
       unified' = [unified EXCEPT !.result = UnifiedGenerate(unified.old, new, normalize)]

-----------------------------------------------------------------------------
SideOf(records, sigils) ==
  FoldLeft(LAMBDA s, r : s \o r.text \o (IF r.marked THEN <<>> ELSE <<"\n">>), <<>>,
           SelectSeq(records, LAMBDA r : r.sigil \in sigils))

(* What the hunk parser rebuilds from a diff are the two texts, the missing
   newline at the end of either included, and the counts in the header are
   the numbers of their lines.  The diff of equal texts has PHP's shape: it
   rebuilds the text with one newline more. *)
DiffRebuildsTexts ==
  LET r == unified.result IN
  /\ r.status = "differs" =>
       /\ SideOf(r.diff.records, {"=", "-"}) = r.u /\ SideOf(r.diff.records, {"=", "+"}) = r.v
       /\ r.diff.old = Len(splitLines(r.u)) /\ r.diff.new = Len(splitLines(r.v))
  /\ r.status = "equal" => SideOf(r.diff.records, {"="}) = Append(r.u, "\n")

Subsequences(s) == {[k \in 1..Cardinality(D) |-> s[SetToSortSeq(D, <)[k]]] : D \in SUBSET DOMAIN s}

(* The script keeps as many lines as two texts have in common in order:
   trimming equal edges, the table and the way back through it together find
   a longest common subsequence. *)
DiffIsMinimal ==
  LET r == unified.result
      common == Subsequences(splitLines(r.u)) \cap Subsequences(splitLines(r.v))
  IN r.status = "differs" =>
       Count([k \in DOMAIN r.diff.records |-> r.diff.records[k].sigil], {"="}) = Max({Len(c) : c \in common})

(* Within one change the deleted lines come before the inserted ones, the
   order diff writes and the parser expects. *)
DeletionsFirst ==
  unified.result.status = "differs" =>
    \A k \in 1..(Len(unified.result.diff.records) - 1) :
      ~(unified.result.diff.records[k].sigil = "+" /\ unified.result.diff.records[k + 1].sigil = "-")

\* The diff is one of the two texts, the shortest one, in the order a parser
\* expects (formatUnified over lcs).
DiffCorrect == DiffRebuildsTexts /\ DiffIsMinimal /\ DeletionsFirst

-----------------------------------------------------------------------------
(***************************************************************************)
(* The diff of running text (diff/prose): paragraphs, sentences, words and *)
(* characters, each level refining the changes of the one before.  A text  *)
(* is a sequence of characters, a part a type and a text.                  *)
(***************************************************************************)
CONSTANTS
  ProseChars,       \* characters of the inputs
  MaxProse,         \* bound: length of both inputs together
  MaxEditDistance   \* pieces a side may have at an aligned level (128)

levelParagraph == 0
levelSentence == 1
levelWord == 2
levelChar == 3

Part(type, text) == [type |-> type, text |-> text]
AsParts(type, pieces) == [k \in DOMAIN pieces |-> Part(type, pieces[k])]

-----------------------------------------------------------------------------
(***************************************************************************)
(* Splitting.                                                              *)
(***************************************************************************)
Delimiters(level) ==
  CASE level = levelParagraph -> {"\n"}
    [] level = levelSentence -> {"\n", ",", "!", ";", "?", "."}
    [] level = levelWord -> {" ", "\t", "\n", "\r"}

\* a piece ends with a whole run of delimiters, or with the text
Pieces(s, delimiters) ==
  LET ends == {k \in DOMAIN s : k = Len(s) \/ (s[k] \in delimiters /\ s[k + 1] \notin delimiters)}
      at == SetToSortSeq(ends, <)
  IN [n \in DOMAIN at |-> SubSeq(s, IF n = 1 THEN 1 ELSE at[n - 1] + 1, at[n])]

trimApart(s) ==
  LET body == {k \in DOMAIN s : s[k] \notin {" ", "\t", "\n", "\r"}}
  IN IF body = {} THEN <<s>>
     ELSE SelectSeq(<<SubSeq(s, 1, Min(body) - 1), SubSeq(s, Min(body), Max(body)),
                      SubSeq(s, Max(body) + 1, Len(s))>>, LAMBDA p : p # <<>>)

splitCorpus(s, level) ==
  IF level = levelChar THEN [k \in DOMAIN s |-> <<s[k]>>]
  ELSE LET pieces == Pieces(s, Delimiters(level))
       IN IF level < levelWord THEN FlattenSeq([k \in DOMAIN pieces |-> trimApart(pieces[k])])
          ELSE pieces

-----------------------------------------------------------------------------
(***************************************************************************)
(* Aligning the pieces.                                                    *)
(***************************************************************************)
RECURSIVE hashDiff(_, _)
hashDiff(us, vs) ==
  IF us = <<>> THEN AsParts("+", vs)
  ELSE LET same == {k \in DOMAIN vs : vs[k] = Head(us)}
       IN IF same = {} THEN <<Part("-", Head(us))>> \o hashDiff(Tail(us), vs)
          ELSE AsParts("+", SubSeq(vs, 1, Min(same) - 1)) \o <<Part("=", Head(us))>>
               \o hashDiff(Tail(us), SubSeq(vs, Min(same) + 1, Len(vs)))

Distance(us, vs) ==
  LET dp[i \in 0..Len(us), j \in 0..Len(vs)] ==
        IF i = 0 THEN j ELSE IF j = 0 THEN i
        ELSE IF us[i] = vs[j] THEN dp[i - 1, j - 1]
        ELSE 1 + Min({dp[i - 1, j - 1], dp[i - 1, j], dp[i, j - 1]})
  IN dp

RECURSIVE EditString(_, _, _, _, _)
EditString(us, vs, dp, i, j) ==
  IF i = 0 /\ j = 0 THEN <<>>
  ELSE IF i > 0 /\ j > 0 /\ us[i] = vs[j] THEN Append(EditString(us, vs, dp, i - 1, j - 1), "s")
  ELSE IF i > 0 /\ j > 0 /\ dp[i, j] = dp[i - 1, j - 1] + 1 THEN Append(EditString(us, vs, dp, i - 1, j - 1), "x")
  ELSE IF j > 0 /\ (i = 0 \/ dp[i, j - 1] <= dp[i - 1, j]) THEN Append(EditString(us, vs, dp, i, j - 1), "i")
  ELSE Append(EditString(us, vs, dp, i - 1, j), "d")

smooth(ops) ==
  LET result[k \in DOMAIN ops] ==
        IF /\ ops[k] = "s"
           /\ k > 1 /\ result[k - 1] # "s"
           /\ k < Len(ops) /\ ops[k + 1] # "s"
        THEN "x" ELSE ops[k]
  IN [k \in DOMAIN ops |-> result[k]]

RECURSIVE Edited(_, _, _)
Edited(ops, us, vs) ==
  IF ops = <<>> THEN <<>>
  ELSE CASE Head(ops) = "s" -> <<Part("=", Head(us))>> \o Edited(Tail(ops), Tail(us), Tail(vs))
         [] Head(ops) = "d" -> <<Part("-", Head(us))>> \o Edited(Tail(ops), Tail(us), vs)
         [] Head(ops) = "i" -> <<Part("+", Head(vs))>> \o Edited(Tail(ops), us, Tail(vs))
         [] Head(ops) = "x" -> <<Part("-", Head(us)), Part("+", Head(vs))>> \o Edited(Tail(ops), Tail(us), Tail(vs))

Oversized(us, vs) == Len(us) > MaxEditDistance \/ Len(vs) > MaxEditDistance

editDistanceDiff(us, vs, level) ==
  LET ops == EditString(us, vs, Distance(us, vs), Len(us), Len(vs))
  IN IF Oversized(us, vs) THEN AsParts("-", us) \o AsParts("+", vs)
     ELSE Edited(IF level > levelSentence THEN smooth(ops) ELSE ops, us, vs)

-----------------------------------------------------------------------------
(***************************************************************************)
(* The normal form of a list of parts.                                     *)
(***************************************************************************)
LayoutChars == {" ", "\n", ".", "!", ",", "?", "]", "[", "(", ")", "<", ">"}

\* the layout characters two changes share at the front, and at the back of the rest
Shared(s, t, limit) ==
  Max({k \in 0..limit : \A i \in 1..k : s[i] = t[i] /\ s[i] \in LayoutChars})

combineRuns(old, new) ==
  LET least == Min({Len(old), Len(new)})
      p == Shared(old, new, least)
      q == Shared(Reverse(old), Reverse(new), least - p)
      parts ==
        << [keep |-> p > 0, part |-> Part("=", SubSeq(old, 1, p))],
           [keep |-> p < Len(old), part |-> Part("-", SubSeq(old, p + 1, Len(old) - q))],
           [keep |-> p < Len(new), part |-> Part("+", SubSeq(new, p + 1, Len(new) - q))],
           [keep |-> q > 0, part |-> Part("=", SubSeq(old, Len(old) - q + 1, Len(old)))] >>
      kept == SelectSeq(parts, LAMBDA r : r.keep)
  IN [k \in DOMAIN kept |-> kept[k].part]

Merged(parts) ==
  FoldLeft(LAMBDA done, p :
             IF done # <<>> /\ Last(done).type = p.type
             THEN Append(Front(done), Part(p.type, Last(done).text \o p.text))
             ELSE Append(done, p),
           <<>>, parts)

\* a list of parts as alternating changes and unchanged texts
Runs(parts) ==
  LET step(run, p) ==
        CASE p.type = "-" -> [run EXCEPT !.old = @ \o p.text, !.open = TRUE]
          [] p.type = "+" -> [run EXCEPT !.new = @ \o p.text, !.open = TRUE]
          [] p.type = "=" -> [done |-> run.done \o (IF run.open THEN <<[change |-> TRUE, old |-> run.old, new |-> run.new]>> ELSE <<>>)
                                       \o <<[change |-> FALSE, text |-> p.text]>>,
                              open |-> FALSE, old |-> <<>>, new |-> <<>>]
      last == FoldLeft(step, [done |-> <<>>, open |-> FALSE, old |-> <<>>, new |-> <<>>], parts)
  IN last.done \o (IF last.open THEN <<[change |-> TRUE, old |-> last.old, new |-> last.new]>> ELSE <<>>)

\* a bug: what is lifted out of a change is not merged with its neighbours
NotMerged(parts) ==
  LET runs == Runs(parts)
  IN FlattenSeq([k \in DOMAIN runs |->
       IF runs[k].change THEN combineRuns(runs[k].old, runs[k].new) ELSE <<Part("=", runs[k].text)>>])

reorderParts(parts) ==
  LET runs == Runs(parts)
  IN Merged(FlattenSeq([k \in DOMAIN runs |->
       IF runs[k].change THEN combineRuns(runs[k].old, runs[k].new) ELSE <<Part("=", runs[k].text)>>]))

RECURSIVE buildProseDiff(_, _, _)
buildProseDiff(u, v, level) ==
  LET us == splitCorpus(u, level)
      vs == splitCorpus(v, level)
      tooLarge == level # levelParagraph /\ Oversized(us, vs)
      diff == reorderParts(IF level = levelParagraph THEN hashDiff(us, vs) ELSE editDistanceDiff(us, vs, level))
      blocks == Runs(diff)
      refined(b) ==
        IF ~b.change THEN <<Part("=", b.text)>>
        ELSE IF b.old = <<>> /\ b.new = <<>> THEN <<>>
        ELSE IF b.old = <<>> THEN <<Part("+", b.new)>>
        ELSE IF b.new = <<>> THEN <<Part("-", b.old)>>
        ELSE IF tooLarge THEN <<Part("-", b.old), Part("+", b.new)>>
        ELSE buildProseDiff(b.old, b.new, level + 1)
  IN IF level = levelChar THEN diff
     ELSE reorderParts(FlattenSeq([k \in DOMAIN blocks |-> refined(blocks[k])]))

ProseGenerate(old, new) == reorderParts(buildProseDiff(old, new, levelParagraph))

VARIABLE prose

ProseInit == prose \in [old : BoundedSeq(ProseChars, MaxProse), new : {<<>>}, parts : {<<>>}, done : {FALSE}]

ProseNext ==
  /\ ~prose.done
  /\ \E new \in BoundedSeq(ProseChars, MaxProse - Len(prose.old)) :
       prose' = [prose EXCEPT !.new = new, !.parts = ProseGenerate(prose.old, new), !.done = TRUE]

-----------------------------------------------------------------------------
SideText(types) ==
  FlattenSeq([k \in DOMAIN SelectSeq(prose.parts, LAMBDA p : p.type \in types) |->
                SelectSeq(prose.parts, LAMBDA p : p.type \in types)[k].text])

(* The unchanged and deleted parts are the old text, the unchanged and
   inserted ones the new text, whatever the levels split, aligned, smoothed
   and lifted out ("one property in particular"). *)
ProseLossless ==
  prose.done => SideText({"=", "-"}) = prose.old /\ SideText({"=", "+"}) = prose.new

(* The result is in normal form: no part is empty, neighbours differ in
   type and within a change the deletion comes first.  The layout characters
   lifted out of one change can leave an empty deletion or insertion behind,
   which only the next reordering drops. *)
ProseNormalForm ==
  /\ \A k \in DOMAIN prose.parts : prose.parts[k].text # <<>>
  /\ \A k \in 1..(Len(prose.parts) - 1) :
       /\ prose.parts[k].type # prose.parts[k + 1].type
       /\ prose.parts[k].type = "+" => prose.parts[k + 1].type = "="

\* The parts spell both texts and are in normal form at every level of the
\* refinement (prose.go).
ProseCorrect == ProseLossless /\ ProseNormalForm
=============================================================================
