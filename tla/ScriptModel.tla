---------------------------- MODULE ScriptModel ----------------------------
(***************************************************************************)
(* ScriptModel (src/src/core/scriptmodel.cpp): a list model that turns a   *)
(* new list of values into row operations on the old one.  Each step is    *)
(* one turn of the loop in updateValuesUnique(); a view applies the        *)
(* operations it is told of to the rows it shows.                          *)
(***************************************************************************)
EXTENDS Integers, Sequences

CONSTANTS
  Items,     \* what a list may hold: <<key, rest>>, equal to the model if the keys are
  Lists      \* sequences of them that the model may be given

VARIABLES
  values,    \* mValues
  newValues,
  iter,      \* how many of values have been passed
  newIter,   \* and of newValues
  busy,      \* an update is going on
  view       \* the rows of a view, as it has them from the model

modelVars == <<values, newValues, iter, newIter, busy, view>>

Same(x, y) == x[1] = y[1]
From(s, i)     == SubSeq(s, i + 1, Len(s))
Found(x, s, i) == \E j \in i + 1..Len(s) : Same(s[j], x)
\* The length of a run that has n, n + 1, ... as long as Goes(n).
RunLength(Goes(_)) ==
  CHOOSE n \in 1..Len(values) + Len(newValues) : ~Goes(n) /\ \A m \in 1..n - 1 : Goes(m)

\* What a view does with its rows; the rows it has not seen it asks the model for.
InsertRows(first, last, vs) == SubSeq(view, 1, first) \o SubSeq(vs, first + 1, last + 1) \o From(view, first)
RemoveRows(first, last)     == SubSeq(view, 1, first) \o From(view, last + 1)
MoveRows(first, last, to)   == SubSeq(view, 1, to) \o SubSeq(view, first + 1, last + 1)
                                 \o SubSeq(view, to + 1, first) \o From(view, last + 1)
DataChanged(first, last, vs) == [i \in DOMAIN view |-> IF i \in first + 1..last + 1 THEN vs[i] ELSE view[i]]

-----------------------------------------------------------------------------
SetValues(new) ==
  /\ ~busy /\ new # values
  /\ newValues' = new /\ iter' = 0 /\ newIter' = 0 /\ busy' = TRUE
  /\ UNCHANGED <<values, view>>

AtEnd    == iter = Len(values)
NewAtEnd == newIter = Len(newValues)
Old == values[iter + 1]
New == newValues[newIter + 1]

Finish ==
  /\ busy /\ NewAtEnd /\ AtEnd
  /\ busy' = FALSE
  /\ UNCHANGED <<values, newValues, iter, newIter, view>>

\* The rest is not in the new list.
Chop ==
  /\ busy /\ NewAtEnd /\ ~AtEnd
  /\ values' = SubSeq(values, 1, iter)
  /\ view' = RemoveRows(Len(newValues), Len(values) - 1)
  /\ busy' = FALSE
  /\ UNCHANGED <<newValues, iter, newIter>>

AppendRest ==
  /\ busy /\ ~NewAtEnd /\ AtEnd
  /\ values' = values \o From(newValues, Len(values))
  /\ view' = InsertRows(Len(values), Len(newValues) - 1, values')
  /\ busy' = FALSE
  /\ UNCHANGED <<newValues, iter, newIter>>

Differ == busy /\ ~NewAtEnd /\ ~AtEnd /\ ~Same(New, Old)

\* Entries in the way that the new list does not have are removed.
RemoveRun ==
  /\ Differ /\ Found(New, values, iter) /\ ~Found(Old, newValues, newIter)
  /\ LET Goes(n) == iter + n < Len(values) /\ ~Found(values[iter + n + 1], newValues, newIter)
         n == RunLength(Goes)
     IN /\ values' = SubSeq(values, 1, iter) \o From(values, iter + n)
        /\ view' = RemoveRows(iter, iter + n - 1)
  /\ UNCHANGED <<newValues, iter, newIter, busy>>

\* Mutant: the rows between are not shifted.
MoveRunSwaps ==
  /\ Differ /\ Found(New, values, iter) /\ Found(Old, newValues, newIter)
  /\ LET old == CHOOSE j \in iter..Len(values) - 1 :
                  Same(values[j + 1], New) /\ \A i \in iter..j - 1 : ~Same(values[i + 1], New)
     IN /\ values' = [values EXCEPT ![iter + 1] = values[old + 1], ![old + 1] = Old]
        /\ view' = MoveRows(old, old, iter)
        /\ iter' = iter + 1 /\ newIter' = newIter + 1
  /\ UNCHANGED <<newValues, busy>>

\* A run of entries that follow one another in both lists is moved forward.
MoveRun ==
  /\ Differ /\ Found(New, values, iter) /\ Found(Old, newValues, newIter)
  /\ LET old == CHOOSE j \in iter..Len(values) - 1 :
                  Same(values[j + 1], New) /\ \A i \in iter..j - 1 : ~Same(values[i + 1], New)
         Goes(n) == /\ old + n < Len(values) /\ newIter + n < Len(newValues)
                    /\ Same(values[old + n + 1], newValues[newIter + n + 1])
         n == RunLength(Goes)
     IN /\ values' = SubSeq(values, 1, iter) \o SubSeq(values, old + 1, old + n)
                       \o SubSeq(values, iter + 1, old) \o From(values, old + n)
        /\ view' = MoveRows(old, old + n - 1, iter)
        /\ iter' = iter + n /\ newIter' = newIter + n
  /\ UNCHANGED <<newValues, busy>>

InsertRun ==
  /\ Differ /\ ~Found(New, values, iter)
  /\ LET Goes(n) == newIter + n < Len(newValues) /\ ~Found(newValues[newIter + n + 1], values, iter)
         n == RunLength(Goes)
     IN /\ values' = SubSeq(values, 1, iter) \o SubSeq(newValues, newIter + 1, newIter + n)
                       \o From(values, iter)
        /\ view' = InsertRows(iter, iter + n - 1, values')
        /\ iter' = iter + n /\ newIter' = newIter + n
  /\ UNCHANGED <<newValues, busy>>

\* Equal entries whose rest differs are replaced, and with them those after them
\* that are different in any way.
ReplaceRun ==
  /\ busy /\ ~NewAtEnd /\ ~AtEnd /\ Same(New, Old) /\ New # Old
  /\ LET Goes(n) == /\ iter + n < Len(values) /\ newIter + n < Len(newValues)
                    /\ values[iter + n + 1] # newValues[newIter + n + 1]
         n == RunLength(Goes)
     IN /\ values' = [i \in DOMAIN values |->
                        IF i \in iter + 1..iter + n THEN newValues[newIter + i - iter] ELSE values[i]]
        /\ view' = DataChanged(iter, iter + n - 1, values')
        /\ iter' = iter + n /\ newIter' = newIter + n
  /\ UNCHANGED <<newValues, busy>>

Pass ==
  /\ busy /\ ~NewAtEnd /\ ~AtEnd /\ New = Old
  /\ iter' = iter + 1 /\ newIter' = newIter + 1
  /\ UNCHANGED <<values, newValues, busy, view>>

-----------------------------------------------------------------------------
Init == values = <<>> /\ newValues = <<>> /\ iter = 0 /\ newIter = 0 /\ busy = FALSE /\ view = <<>>

Next ==
  \/ \E new \in Lists : SetValues(new)
  \/ Finish \/ Chop \/ AppendRest \/ RemoveRun \/ MoveRun \/ InsertRun \/ ReplaceRun \/ Pass

Spec == Init /\ [][Next]_modelVars

-----------------------------------------------------------------------------
TypeOK ==
  /\ values \in Seq(Items) /\ newValues \in Seq(Items) /\ view \in Seq(Items)
  /\ iter \in 0..Len(values) /\ newIter \in 0..Len(newValues) /\ busy \in BOOLEAN

\* The operations a view is told of give it the rows of the model, at every one
\* of them, and a finished update has arranged the entries of the new list.
ViewFollows ==
  /\ view = values
  /\ ~busy => /\ Len(values) = Len(newValues)
              /\ \A i \in DOMAIN values : Same(values[i], newValues[i])
=============================================================================
