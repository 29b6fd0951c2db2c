--------------------------- MODULE GuardJudgement ---------------------------
(***************************************************************************)
(* The structural half of the per-occurrence judgement of the forbidden-    *)
(* domain gate: is a string literal that names the host literal data bound  *)
(* to a guard-named key (KEYED), or asserted absent (ABSENT)?  The scanner  *)
(* walks the source by positions, back from the literal and forth; here it  *)
(* walks tokens.                                                           *)
(*                                                                         *)
(* The state is the source as far as it has been written: a token is        *)
(* appended at a time, so that the walk is checked in every source within   *)
(* the bounds against the shape the module's documentation describes.       *)
(***************************************************************************)
EXTENDS Integers, SequencesExt

CONSTANTS
  LeftTokens, RightTokens,   \* the tokens written before and after the literal
  MaxLeft, MaxRight,         \* bounds on their number
  CoreTokens, MaxCore        \* the tokens of which more may be written before it

VARIABLES left, right   \* the tokens around the literal that names the host

sourceVars == <<left, right>>

\* guard, name: identifiers, with and without a guard word among their parts; guardLit:
\* a guard word in quotes; lit: another literal; prefix: const, export, assert, ..., the dash
\* of a YAML item; bind: `=', `==' or `:'; other: `!=', `+=', `::', `==='; chain: an
\* operator; call: `assertNotIn'; notIn: `not in'; [ and ] stand for braces as well.
Names == {"guard", "name", "prefix", "call"}
Literals == {"lit", "guardLit"}
Before == Names \cup Literals \cup {"bind", "other", "[", "]", "(", ")", ",", "nl", "comment"}
After == {"lit", "]", ")", ",", "nl", "comment", "chain", "(", "notIn"}
Trivia == {"nl", "comment"}
Openers == {"[", "("}
Closers == {"]", ")"}
CloserFor(o) == IF o = "[" THEN "]" ELSE ")"

ASSUME TokensAssumption ==
  /\ LeftTokens \subseteq Before /\ RightTokens \subseteq After
  /\ CoreTokens \subseteq LeftTokens
  /\ MaxLeft \in Nat /\ MaxRight \in Nat /\ MaxCore \in Nat

-----------------------------------------------------------------------------
(* The walk.  A position is the number of tokens of s to its left.          *)

\* skip_back and skip_forward: over white space and comments.
SkipBack(s, p) ==
  LET solid == {q \in 1 .. p : s[q] \notin Trivia}
  IN  IF solid = {} THEN 0 ELSE CHOOSE q \in solid : \A r \in solid : r <= q
SkipForward(s, p) ==
  LET solid == {q \in p + 1 .. Len(s) : s[q] \notin Trivia}
  IN  IF solid = {} THEN Len(s) ELSE (CHOOSE q \in solid : \A r \in solid : q <= r) - 1

At(s, p) == IF p \in DOMAIN s THEN s[p] ELSE "end"

\* advance: the open brackets of a run of code; Unknown after an unbalanced closer.
Unknown == <<"unknown">>
AdvanceOver(stack, t) ==
  IF stack = Unknown THEN Unknown
  ELSE IF t \in Openers THEN Append(stack, t)
  ELSE IF t \notin Closers THEN stack
  ELSE IF stack # <<>> /\ CloserFor(Last(stack)) = t THEN Front(stack)
  ELSE Unknown
Advance(s) ==
  LET stack[n \in 0 .. Len(s)] == IF n = 0 THEN <<>> ELSE AdvanceOver(stack[n - 1], s[n])
  IN  stack[Len(s)]

\* entry_start: at the start of a line or an entry, past at most three prefix words.
EntryStart(s, p) ==
  LET begins[n \in 0 .. 3] ==
        \/ At(s, p - n) \in {"end", "nl", ",", "[", "("}
        \/ At(s, p - n) = "prefix" /\ n < 3 /\ begins[n + 1]
  IN  begins[0]

\* Defect: the nesting is not asked for.
GuardName_AnyNesting(s, k, line) ==
  /\ k > line
  /\ s[k] \in {"guard", "guardLit"}
  /\ EntryStart(s, k - 1)

\* Defect: the key may stand on an earlier line.
GuardName_AnyLine(s, k, line) ==
  /\ s[k] \in {"guard", "guardLit"}
  /\ EntryStart(s, k - 1)
  /\ Advance(SubSeq(s, 1, k - 1)) # Unknown
  /\ ~Contains(Advance(SubSeq(s, 1, k - 1)), "(")

\* guard_name: the key s[k] stands on the literal's line, which begins after `line'.
GuardName(s, k, line) ==
  /\ k > line
  /\ s[k] \in {"guard", "guardLit"}
  /\ EntryStart(s, k - 1)
  /\ Advance(SubSeq(s, 1, k - 1)) # Unknown
  /\ ~Contains(Advance(SubSeq(s, 1, k - 1)), "(")

\* guard_binding: p is just after an operator that binds the key before it.
GuardBinding(s, p, line) ==
  At(s, p) = "bind" /\ At(s, p - 1) \in Names \cup Literals /\ GuardName(s, p - 1, line)

\* The literals of the collection before this one, back to its opener; -1 if another
\* kind of token is among them.
CrossBack(s, p) ==
  LET crossed[r \in 0 .. Len(s)] ==
        LET q == SkipBack(s, r - 1)
        IN  IF At(s, r) # "," THEN r
            ELSE IF At(s, q) \in Literals THEN crossed[SkipBack(s, q - 1)] ELSE -1
  IN  crossed[p]

\* Those behind it, up to the closer, which the result is just before; -1 likewise.
CrossForward(s, p, closer) ==
  LET crossed[r \in 0 .. Len(s)] ==
        LET q == SkipForward(s, r + 1)
        IN  IF At(s, r + 1) = closer THEN r
            ELSE IF At(s, r + 1) # "," THEN -1
            ELSE IF At(s, q + 1) = closer THEN q
            ELSE IF At(s, q + 1) \in Literals THEN crossed[SkipForward(s, q + 1)] ELSE -1
  IN  crossed[p]

Chaining == {"chain", "(", "[", "other"}

\* keyed_literal, for the literal s[i].
KeyedLiteral(s, i, line) ==
  LET start == SkipBack(s, i - 1)
      back == CrossBack(s, start)
      enclosed == back > 0 /\ s[back] \in Openers
      ahead == IF enclosed THEN CrossForward(s, SkipForward(s, i), CloserFor(s[back]))
               ELSE i - 1
      stop == SkipForward(s, ahead + 1)
  IN  /\ back # -1
      /\ enclosed \/ back = start
      /\ ahead # -1
      /\ At(s, stop + 1) \notin Chaining
      /\ GuardBinding(s, IF enclosed THEN SkipBack(s, back - 1) ELSE back, line)

\* asserted_absent: right after `assertNotIn(', or followed on its line by `not in'.
AssertedAbsent(s, i) ==
  \/ LET open == CHOOSE q \in 0 .. i - 1 :
                   (\A r \in q + 1 .. i - 1 : s[r] = "nl") /\ At(s, q) # "nl"
     IN  At(s, open) = "(" /\ At(s, open - 1) = "call"
  \/ At(s, i + 1) = "notIn"

-----------------------------------------------------------------------------
(* The documented shape, said without a walk.                               *)

\* Brackets that match: every token of s[a..b] that is one has its partner in there.
Balanced(s, a, b) ==
  LET matched[x \in a .. b + 1] ==
        [y \in a - 1 .. b |->
           IF x > y THEN TRUE
           ELSE IF s[x] \in Openers
           THEN \E c \in x + 1 .. y :
                  s[c] = CloserFor(s[x]) /\ matched[x + 1][c - 1] /\ matched[c + 1][y]
           ELSE s[x] \notin Closers /\ matched[x + 1][y]]
  IN  matched[a][b]

\* Up to k the only brackets left open are square: k is in no call.
OutsideCalls(s, k) ==
  \E open \in SUBSET {q \in 1 .. k : s[q] = "["} :
    \A a \in open \cup {0} :
      LET next == {q \in open : q > a}
          b == IF next = {} THEN k ELSE (CHOOSE q \in next : \A r \in next : q <= r) - 1
      IN  Balanced(s, a + 1, b)

Solid(s) == SelectSeq(s, LAMBDA t : t \notin Trivia)

\* s is literals and single commas in turn, beginning and ending as the shape allows.
Alternates(s, first) ==
  \A j \in DOMAIN s : IF j % 2 = first THEN s[j] \in Literals ELSE s[j] = ","

\* The value bound by the operator s[b]: the literal alone, or in a literals-only
\* collection, optionally with a trailing comma; nothing chains onto it.
IsValue(s, b, i) ==
  \/ /\ Solid(SubSeq(s, b + 1, i - 1)) = <<>>
     /\ At(Solid(SubSeq(s, i + 1, Len(s))), 1) \notin Chaining
  \/ \E o \in b + 1 .. i - 1, c \in i + 1 .. Len(s) :
       LET front == Solid(SubSeq(s, o + 1, i - 1))
           back == Solid(SubSeq(s, i + 1, c - 1))
       IN  /\ s[o] \in Openers /\ s[c] = CloserFor(s[o])
           /\ Solid(SubSeq(s, b + 1, o - 1)) = <<>>
           /\ Alternates(front, 1) /\ Len(front) % 2 = 0
           /\ Alternates(back, 0)
           /\ At(Solid(SubSeq(s, c + 1, Len(s))), 1) \notin Chaining

\* "Literal data bound directly to a guard-named key, outside any call; the key must be on
\* the occurrence's own line."  Up to three prefix words may introduce the binding.
Keyed(s, i) ==
  \E k \in 1 .. i - 2 :
    /\ s[k] \in {"guard", "guardLit"} /\ s[k + 1] = "bind"
    /\ \A q \in k .. i : s[q] # "nl"
    /\ \E e \in {q \in 0 .. 3 : q < k} :
         /\ \A q \in k - e .. k - 1 : s[q] = "prefix"
         /\ At(s, k - e - 1) \in {"end", "nl", ",", "[", "("}
    /\ OutsideCalls(s, k - 1)
    /\ IsValue(s, k + 1, i)

-----------------------------------------------------------------------------
Host == "lit"
Source == left \o <<Host>> \o right
Place == Len(left) + 1
LineStart == LET breaks == {q \in DOMAIN left : left[q] = "nl"}
             IN  IF breaks = {} THEN 0 ELSE CHOOSE q \in breaks : \A r \in breaks : r <= q

\* structural, for a string literal
Structural ==
  KeyedLiteral(Source, Place, LineStart) \/ AssertedAbsent(Source, Place)

SourceInit == left = <<>> /\ right = <<>>

WriteLeft(t) ==
  /\ right = <<>>
  /\ \/ Len(left) < MaxLeft
     \/ Len(left) < MaxCore /\ ToSet(left) \cup {t} \subseteq CoreTokens
  /\ left' = Append(left, t) /\ right' = right
WriteRight(t) == Len(right) < MaxRight /\ right' = Append(right, t) /\ left' = left

SourceNext == (\E t \in LeftTokens : WriteLeft(t)) \/ (\E t \in RightTokens : WriteRight(t))
JudgementSpec == SourceInit /\ [][SourceNext]_sourceVars

\* The walk finds exactly the documented KEYED shape, in every source within the bounds.
WalkFindsKeyed == KeyedLiteral(Source, Place, LineStart) <=> Keyed(Source, Place)

\* An argument of a call stays a live reference unless the call is assertNotIn: no key, of
\* that call, around it or in it, covers the literal while the parenthesis that follows a
\* name is open.
CallArgumentsStayLive ==
  (\E q \in DOMAIN left :
     /\ left[q] = "(" /\ At(left, q - 1) \in Names
     /\ ~\E c \in q + 1 .. Len(left) : left[c] = ")" /\ Balanced(left, q + 1, c - 1))
  => (Structural => AssertedAbsent(Source, Place))
=============================================================================
