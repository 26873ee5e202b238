------------------------------ MODULE Planner ------------------------------
(***************************************************************************)
(* From a WHERE clause to the rows a statement works on: binding (module   *)
(* Analyzer), build, constant folding with Boolean simplification, filter  *)
(* pruning and index selection (src/planner/), and the operators that run  *)
(* the plan (src/executor/operator.cpp) with the evaluator (module Expr).  *)
(*                                                                         *)
(* The filter subtree is the same for SELECT, UPDATE and DELETE. A plan is *)
(* its access path, the index ranges and the filter above it. Sort and     *)
(* projection do not choose rows and are left out.                         *)
(***************************************************************************)
EXTENDS Analyzer, Sequences, SequencesExt

CONSTANTS
  Indexes,     \* Catalog::indexes: <<[name, col, ord], ...>> in metadata order
  Rows,        \* row versions of the heap: [vals, live]; dead ones keep index entries
  Clauses      \* WHERE clauses as parsed

Raised == [k |-> "raised"]      \* folding raised a DbError
NoRow  == [c \in DOMAIN Types |-> Internal]

-----------------------------------------------------------------------------
(* Boolean simplification (src/planner/bool_simplify.cpp) *)

IsConst(e) == e.k = "const"
IsNullConst(e) == IsConst(e) /\ e.v = Null
IsBool(e, b) == IsConst(e) /\ e.v = BoolVal(b)

NegateCmpSwapped(op) ==
  CASE op = "=" -> "#" [] op = "#" -> "=" [] op = "<" -> ">" [] op = "<=" -> ">="
    [] op = ">" -> "<" [] op = ">=" -> "<="

NegateCmp(op) ==
  CASE op = "=" -> "#" [] op = "#" -> "=" [] op = "<" -> ">=" [] op = "<=" -> ">"
    [] op = ">" -> "<=" [] op = ">=" -> "<"

\* expr_equal: the scale of a cast's target is not compared.
RECURSIVE ExprEqual(_, _)
ExprEqual(a, b) ==
  /\ a.k = b.k
  /\ CASE a.k = "const" -> a.v = b.v
       [] a.k = "col" -> a.c = b.c
       [] a.k \in {"arith", "cmp", "logic"} ->
            a.op = b.op /\ ExprEqual(a.l, b.l) /\ ExprEqual(a.r, b.r)
            /\ (a.k = "arith" => a.ty = b.ty)
       [] a.k \in {"neg", "func"} -> a.ty = b.ty /\ ExprEqual(a.x, b.x)
       [] a.k = "not" -> ExprEqual(a.x, b.x)
       [] a.k = "isnull" -> a.neg = b.neg /\ ExprEqual(a.x, b.x)
       [] a.k = "cast" -> a.ty = b.ty /\ a.p = b.p /\ ExprEqual(a.x, b.x)

\* simplify_logic: a constant absorbs the node or drops out of it.
SimplifyLogic(e) ==
  LET absorbing == e.op = "or"
  IN IF IsBool(e.l, absorbing) \/ IsBool(e.r, absorbing) THEN Const(BoolVal(absorbing))
     ELSE IF IsBool(e.l, ~absorbing) THEN e.r
     ELSE IF IsBool(e.r, ~absorbing) THEN e.l
     ELSE e

\* simplify_not: double negation, negated comparison, negated IS NULL.
SimplifyNot(e) ==
  CASE e.x.k = "not"    -> e.x.x
    [] e.x.k = "cmp"    -> [e.x EXCEPT !.op = NegateCmp(@)]
    [] e.x.k = "isnull" -> [e.x EXCEPT !.neg = ~@]
    [] OTHER            -> e

\* simplify_cmp: an expression compared with itself.
SimplifyCmp(e) ==
  IF ~ExprEqual(e.l, e.r) THEN e
  ELSE IF e.op \in {"=", "<=", ">="} THEN IsNull(e.l, TRUE)
  ELSE Const(BoolVal(FALSE))

-----------------------------------------------------------------------------
(* Constant folding (src/planner/const_fold.cpp) *)

FoldedTo(v)    == IF Failed(v) THEN Raised ELSE Const(v)
ToFoldConst(e) == FoldedTo(Eval(e, NoRow))

\* A node whose operands are folded: f. weak: the value is only tested for
\* TRUE, so NULL may become FALSE.
Simplified(f, weak) ==
  CASE f.k = "logic" -> SimplifyLogic(f)
    [] f.k = "cmp" /\ weak -> SimplifyCmp(f)
    [] f.k = "not" -> IF weak /\ SimplifyNot(f).k = "cmp" THEN SimplifyCmp(SimplifyNot(f)) ELSE SimplifyNot(f)
    [] OTHER -> f

FoldNode(f, operands, weak) ==
  IF Raised \in operands THEN Raised
  ELSE IF \A x \in operands : IsConst(x) THEN ToFoldConst(f)
  ELSE IF f.k \in {"arith", "cmp"} /\ \E x \in operands : IsNullConst(x) THEN Const(Null)
  ELSE Simplified(f, weak)

FoldBinary(e, l, r, weak) == FoldNode([e EXCEPT !.l = l, !.r = r], {l, r}, weak)

\* fold_expr. Only AND and OR pass the weak context on.
RECURSIVE Fold(_, _)
Fold(e, weak) ==
  CASE e.k \in {"const", "col"} -> e
    [] e.k \in {"arith", "cmp", "logic"} ->
         FoldBinary(e, Fold(e.l, weak /\ e.k = "logic"), Fold(e.r, weak /\ e.k = "logic"), weak)
    [] OTHER -> LET x == Fold(e.x, FALSE) IN FoldNode([e EXCEPT !.x = x], {x}, weak)

\* A folder that raises for a constant zero divisor whatever it divides.
RECURSIVE FoldEager(_, _)
FoldEager(e, weak) ==
  IF e.k = "arith" /\ e.op = "/" /\ IsConst(e.r) /\ e.r.v.u = 0 THEN Raised
  ELSE IF e.k \in {"const", "col"} THEN e
  ELSE IF e.k \in {"arith", "cmp", "logic"} THEN
    LET l == FoldEager(e.l, FALSE)
        r == FoldEager(e.r, FALSE)
    IN IF l = Raised \/ r = Raised THEN Raised ELSE [e EXCEPT !.l = l, !.r = r]
  ELSE LET x == FoldEager(e.x, FALSE) IN IF x = Raised THEN Raised ELSE [e EXCEPT !.x = x]

\* WHERE's predicate is folded in a weak context.
FoldPredicateEager(e) == FoldEager(e, TRUE)

FoldPredicate(e) == Fold(e, TRUE)

-----------------------------------------------------------------------------
(* Index selection (src/planner/index_select.cpp) *)

Unbounded == [any |-> TRUE, key |-> NullKey, incl |-> FALSE]
Bound(k, incl) == [any |-> FALSE, key |-> k, incl |-> incl]
IndexRange(lo, hi) == [lo |-> lo, hi |-> hi]

\* tighter_lo and tighter_hi: dir is 1 for lower bounds, -1 for upper ones.
Tighter(a, b, dir) ==
  IF a.any \/ b.any THEN (IF a.any THEN b ELSE a)
  ELSE LET c == dir * KeyCmp(a.key, b.key)
       IN IF c # 0 THEN (IF c > 0 THEN a ELSE b) ELSE IF a.incl THEN b ELSE a

\* range_meet: a range, or none when the lower bound passes the upper one.
RangeMeet(a, b) ==
  LET r == IndexRange(Tighter(a.lo, b.lo, 1), Tighter(a.hi, b.hi, -1))
      c == KeyCmp(r.lo.key, r.hi.key)
      crossed == ~r.lo.any /\ ~r.hi.any /\ (c > 0 \/ (c = 0 /\ ~(r.lo.incl /\ r.hi.incl)))
  IN IF crossed THEN <<>> ELSE <<r>>

\* ranges_meet: every pair, in order.
RangesMeet(as, bs) ==
  FlattenSeq([i \in 1..Len(as) |-> FlattenSeq([j \in 1..Len(bs) |-> RangeMeet(as[i], bs[j])])])

\* cmp_ranges: ranges without an upper bound stop before the NULL keys.
CmpRanges(op, k) ==
  LET closed == Bound(k, TRUE)
      open == Bound(k, FALSE)
      openNull == Bound(NullKey, FALSE)
  IN CASE op = "="  -> <<IndexRange(closed, closed)>>
       [] op = "<"  -> <<IndexRange(Unbounded, open)>>
       [] op = "<=" -> <<IndexRange(Unbounded, closed)>>
       [] op = ">"  -> <<IndexRange(open, openNull)>>
       [] op = ">=" -> <<IndexRange(closed, openNull)>>
       [] op = "#"  -> <<IndexRange(Unbounded, open), IndexRange(open, openNull)>>

NullRanges(neg) ==
  IF neg THEN <<IndexRange(Unbounded, Bound(NullKey, FALSE))>>
  ELSE <<IndexRange(Bound(NullKey, TRUE), Bound(NullKey, TRUE))>>

Mirror(op) == CASE op \in {"=", "#"} -> op [] op = "<" -> ">" [] op = "<=" -> ">="
                [] op = ">" -> "<" [] op = ">=" -> "<="

IsColumn(e, c) == e.k = "col" /\ e.c = c

\* match_hit: the ranges a conjunct selects on column c, or no hit.
NoHit == [hit |-> FALSE, eq |-> FALSE, ranges |-> <<>>]
MatchHit(e, c) ==
  CASE e.k = "cmp" ->
         LET left == IsColumn(e.l, c)
             other == IF left THEN e.r ELSE e.l
             op == IF left THEN e.op ELSE Mirror(e.op)
         IN IF left = IsColumn(e.r, c) \/ ~IsConst(other) THEN NoHit
            ELSE IF ~Probes(Types[c], other.v) THEN NoHit
            ELSE [hit |-> TRUE, eq |-> op = "=", ranges |-> CmpRanges(op, ProbeKey(Types[c], other.v))]
    [] e.k = "isnull" ->
         IF IsColumn(e.x, c) THEN [hit |-> TRUE, eq |-> FALSE, ranges |-> NullRanges(e.neg)] ELSE NoHit
    [] OTHER -> NoHit

\* flatten_view, flatten_take and join_and.
RECURSIVE Conjuncts(_)
Conjuncts(e) == IF e.k = "logic" /\ e.op = "and" THEN Conjuncts(e.l) \o Conjuncts(e.r) ELSE <<e>>

JoinAnd(es) == FoldLeft(LAMBDA acc, e : Logic("and", acc, e), es[1], Tail(es))

Hits(conj, c) == [i \in 1..Len(conj) |-> MatchHit(conj[i], c)]

\* pick_index: an equality first, then the smaller column, then the first.
NoIndex == [name |-> "none", ord |-> 0]
HasEq(conj, idx) == \E i \in 1..Len(conj) : Hits(conj, idx.col)[i].eq
PickIndex(conj) ==
  FoldLeft(LAMBDA best, idx :
             IF ~\E i \in 1..Len(conj) : Hits(conj, idx.col)[i].hit THEN best
             ELSE IF best = NoIndex THEN idx
             ELSE IF HasEq(conj, idx) /\ ~HasEq(conj, best) THEN idx
             ELSE IF HasEq(conj, idx) = HasEq(conj, best) /\ idx.ord < best.ord THEN idx
             ELSE best,
           NoIndex, Indexes)

\* intersect_ranges.
Intersect(hits) ==
  FoldLeft(LAMBDA acc, h : IF h.hit THEN RangesMeet(acc, h.ranges) ELSE acc,
           <<IndexRange(Unbounded, Unbounded)>>, hits)

-----------------------------------------------------------------------------
(* Plans *)

NoFilter == Const(BoolVal(TRUE))

Plan(access, index, ranges, filter) ==
  [access |-> access, index |-> index, ranges |-> ranges, filter |-> filter]

SeqScan(filter) == Plan("seq", NoIndex, <<>>, filter)
EmptyPlan       == Plan("empty", NoIndex, <<>>, NoFilter)
FailedPlan      == Plan("raised", NoIndex, <<>>, NoFilter)

\* rewrite_scan: the residual filter keeps the conjuncts that did not hit.
RewriteScan(filter) ==
  LET conj == Conjuncts(filter)
      best == PickIndex(conj)
      hits == Hits(conj, best.col)
      ranges == Intersect(hits)
      rest == SelectSeq([i \in 1..Len(conj) |-> <<hits[i].hit, conj[i]>>], LAMBDA p : ~p[1])
      kept == [i \in 1..Len(rest) |-> rest[i][2]]
  IN IF best = NoIndex THEN SeqScan(filter)
     ELSE IF ranges = <<>> THEN EmptyPlan
     ELSE Plan("index", best, ranges, IF kept = <<>> THEN NoFilter ELSE JoinAnd(kept))

-----------------------------------------------------------------------------
(* The executor: how often a plan returns a row version, or Error *)

InRange(r, k) ==
  /\ r.lo.any \/ (IF r.lo.incl THEN KeyCmp(k, r.lo.key) >= 0 ELSE KeyCmp(k, r.lo.key) > 0)
  /\ r.hi.any \/ (IF r.hi.incl THEN KeyCmp(k, r.hi.key) <= 0 ELSE KeyCmp(k, r.hi.key) < 0)

\* SeqScanOp yields live rows; IndexScanOp yields an entry once per range
\* that holds its key and FetchOp drops the ones of dead rows.
Scanned(p, row) ==
  IF ~row.live \/ p.access = "empty" THEN 0
  ELSE IF p.access = "seq" THEN 1
  ELSE LET k == EncodeKey(row.vals[p.index.col])
       IN Cardinality({i \in 1..Len(p.ranges) : InRange(p.ranges[i], k)})

\* FilterOp over the scan: where_match takes NULL for FALSE.
Passes(n, v) == IF n = 0 THEN 0 ELSE IF Failed(v) \/ ~Truth(v) THEN -1 ELSE IF v = BoolVal(TRUE) THEN n ELSE 0
Returned(p, row) == Passes(Scanned(p, row), Eval(p.filter, row.vals))

-----------------------------------------------------------------------------
(* One statement's way through the analyzer and the planner *)

VARIABLES
  where,    \* the WHERE clause as parsed
  pred,     \* as bound
  plan,     \* the plan built from it
  phase     \* what has been done with it

vars == <<where, pred, plan, phase>>

Init == where \in Clauses /\ pred = NoFilter /\ plan = FailedPlan /\ phase = "parsed"

\* analyze: the clause is bound or the statement is refused.
Bind ==
  /\ phase = "parsed"
  /\ LET b == BindWhere(where)
     IN IF b = Refused THEN phase' = "refused" /\ UNCHANGED pred
        ELSE phase' = "bound" /\ pred' = b.e
  /\ UNCHANGED <<where, plan>>

\* pl::build: Filter over SeqScan.
Build ==
  /\ phase = "bound" /\ phase' = "built" /\ plan' = SeqScan(pred)
  /\ UNCHANGED <<where, pred>>

\* The folded filter goes into the plan; a DbError ends the statement.
Refilter(f) ==
  IF f = Raised THEN phase' = "failed" /\ plan' = FailedPlan
  ELSE phase' = "folded" /\ plan' = [plan EXCEPT !.filter = f]

\* fold_const.
FoldConst ==
  /\ phase = "built" /\ Refilter(FoldPredicate(plan.filter))
  /\ UNCHANGED <<where, pred>>

\* prune_filter: TRUE drops the filter, FALSE and NULL the whole subtree.
PruneFilter ==
  /\ phase = "folded" /\ phase' = "pruned"
  /\ plan' = IF IsConst(plan.filter) /\ plan.filter # NoFilter THEN EmptyPlan ELSE plan
  /\ UNCHANGED <<where, pred>>

\* select_index, on a Filter over a SeqScan only.
SelectIndex ==
  /\ phase = "pruned" /\ phase' = "planned"
  /\ plan' = IF plan.access = "seq" /\ plan.filter # NoFilter THEN RewriteScan(plan.filter) ELSE plan
  /\ UNCHANGED <<where, pred>>

\* The statement is over; the client sends it again.
Resend ==
  /\ phase \in {"planned", "failed", "refused"} /\ phase' = "parsed"
  /\ pred' = NoFilter /\ plan' = FailedPlan
  /\ UNCHANGED where

Next == Bind \/ Build \/ FoldConst \/ PruneFilter \/ SelectIndex \/ Resend

Spec == Init /\ [][Next]_vars

-----------------------------------------------------------------------------

\* After every pass the plan returns a row exactly once when the WHERE clause
\* as written holds for it and never otherwise, and raises no error of its
\* own, for every row on which the clause itself raises none: NULL logic,
\* negation, self-comparison, index ranges and stale entries of dead rows
\* included (fold_const, prune_filter, select_index; IndexScanOp, FetchOp).
\* For clauses that do not compare casts of one operand to different scales,
\* which expr_equal takes for equal (bool_simplify.cpp:102; MCCastClauses).
PlanSound ==
  phase \in {"folded", "pruned", "planned"} =>
    \A row \in Rows :
      LET v == Eval(pred, row.vals)
      IN (row.live /\ v = Error) \/ Returned(plan, row) = IF row.live /\ v = BoolVal(TRUE) THEN 1 ELSE 0

\* A statement refused while planning would fail on every row: folding raises
\* only what evaluation raises anyway (eval_const in fold_expr).
FoldErrorsReal == phase = "failed" => \A row \in Rows : Eval(pred, row.vals) = Error

\* What the analyzer lets through keeps the evaluator's contract: neither the
\* clause nor the filter a pass leaves raises Internal on any row, and each is
\* a truth value, NULL or an error of the data ("由语义层保证" in eval_binary,
\* eval_compare, eval_logic, eval_func_call and where_match).
TypesHold ==
  phase \in {"bound", "folded", "planned"} =>
    \A row \in Rows :
      LET v == Eval(IF phase = "bound" THEN pred ELSE plan.filter, row.vals) IN v = Error \/ Truth(v)

=============================================================================
