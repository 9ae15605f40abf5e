------------------------------- MODULE Browser -------------------------------
(***************************************************************************)
(* The findings browser that cbx audit aws opens on a terminal             *)
(* (internal/tui/audit): the update function of its Bubble Tea model, one  *)
(* action per key or window event, and the rows its list panel draws.      *)
(* What text a finding has is whether it contains a search text.           *)
(***************************************************************************)
EXTENDS Integers, Sequences, FiniteSets

CONSTANTS Findings,  \* the findings as they were handed in, in any order
          Texts,     \* what may be typed into the search line; "" among them
          Services,  \* the services of the findings, in order
          Widths, Heights  \* sizes of the window
CONSTANT Contains(_, _)    \* whether a finding contains a text

ASSUME BrowserAssumption ==
    /\ Findings \in Seq([rank : 0..3, rule : Nat, service : {Services[i] : i \in DOMAIN Services}])
    /\ Services \in Seq(STRING)
    /\ "" \in Texts /\ \A i \in DOMAIN Findings : Contains(Findings[i], "")
    /\ Widths \subseteq Nat /\ Heights \subseteq Nat

VARIABLES
    findings, filtered, cursor, offset, \* Model's fields of these names
    filter,                             \* [search, severity, service]; 4 and "" are "all"
    searching,                          \* searchMode: the search line has the keyboard
    mode, focus, size,
    detail,                             \* the finding in the detail pane, 0 for none
    quitting

list == <<filtered, cursor, offset>>
vars == <<findings, list, filter, searching, mode, focus, size, detail, quitting>>

All == 4
NoFilter == [search |-> "", severity |-> All, service |-> ""]
Rows == DOMAIN findings

\* The members of S in the order R: the kth has k members up to itself.
InOrder(S, R) ==
    [k \in 1..Cardinality(S) |-> CHOOSE x \in S : Cardinality({y \in S : <<y, x>> \in R}) = k]

Before(f, g) == f.rank < g.rank \/ (f.rank = g.rank /\ f.rule < g.rule)

\* A stable sort: what ties stays as it was handed in.
Precedes(fs) ==
    {p \in (DOMAIN fs) \X (DOMAIN fs) :
        \/ Before(fs[p[1]], fs[p[2]])
        \/ ~Before(fs[p[2]], fs[p[1]]) /\ p[1] <= p[2]}
SortFindings(fs) ==
    LET place == InOrder(DOMAIN fs, Precedes(fs)) IN [k \in DOMAIN fs |-> fs[place[k]]]

Shown(f, flt) ==
    /\ flt.severity \in {All, f.rank}
    /\ flt.service \in {"", f.service}
    /\ Contains(f, flt.search)
Matching(fs, flt) == {i \in DOMAIN fs : Shown(fs[i], flt)}
UpTo(S) == {p \in S \X S : p[1] <= p[2]}
ApplyFilters(fs, flt) == InOrder(Matching(fs, flt), UpTo(Matching(fs, flt)))

\* SelectedFinding: a row of findings, or 0.
SelectedFinding(fl, cur) == IF cur \in DOMAIN fl THEN fl[cur] ELSE 0

\* The panel's height without its border, and the rows a page counts for.
MainHeight(h) == IF h - 4 < 4 THEN 4 ELSE h - 4
Body(h) == MainHeight(h) - 2
\* Mutant: the dividers between severities are not allowed for.
VisibleCount_NoDividers(h) == IF Body(h) < 4 THEN 1 ELSE Body(h)

VisibleCount(h) == IF Body(h) < 4 THEN 1 ELSE Body(h) - 3

TypeOK ==
    /\ filtered \in Seq(Rows) /\ cursor \in Nat \ {0} /\ offset \in Nat
    /\ filter \in [search : Texts, severity : 0..All, service : {Services[i] : i \in DOMAIN Services} \cup {""}]
    /\ searching \in BOOLEAN /\ quitting \in BOOLEAN
    /\ mode \in {"list", "detail", "help", "open"} /\ focus \in {"list", "detail"}
    /\ size \in [width : Widths \cup {0}, height : Heights \cup {0}]
    /\ detail \in Rows \cup {0}

\* Rows are counted from 1 here: the cursor is 1 in an empty list.  Nothing is in the
\* detail pane before the first WindowSizeMsg.
Init ==
    /\ findings = SortFindings(Findings)
    /\ filtered = [i \in DOMAIN findings |-> i]
    /\ cursor = 1 /\ offset = 0 /\ filter = NoFilter
    /\ searching = FALSE /\ mode = "list" /\ focus = "list"
    /\ size = [width |-> 0, height |-> 0] /\ detail = 0 /\ quitting = FALSE

Wide == size.width >= 110
Keys == ~quitting /\ ~searching      \* handleKey, past the search line
ListKeys == Keys /\ mode = "list"

-----------------------------------------------------------------------------
Clamp(n, len) == IF n > len THEN (IF len = 0 THEN 1 ELSE len) ELSE IF n < 1 THEN 1 ELSE n

\* ensureCursorVisible: offset counts the rows above the window.
Scrolled(cur) ==
    LET vc == VisibleCount(size.height) IN
    IF cur - 1 < offset THEN cur - 1
    ELSE IF cur - 1 >= offset + vc THEN cur - vc ELSE offset

MoveTo(cur) ==
    /\ cursor' = cur /\ offset' = Scrolled(cur)
    /\ detail' = SelectedFinding(filtered, cur)
    /\ UNCHANGED <<findings, filtered, filter, searching, mode, focus, size, quitting>>

\* Mutant: the cursor stays where it was when the list shrinks.
ApplyFilter_KeepsCursor(flt) ==
    LET fl == ApplyFilters(findings, flt) IN
    /\ filter' = flt /\ filtered' = fl
    /\ cursor' = cursor /\ offset' = 0
    /\ detail' = SelectedFinding(fl, cursor)

ApplyFilter(flt) ==
    LET fl == ApplyFilters(findings, flt)
        cur == Clamp(cursor, Len(fl))
    IN  /\ filter' = flt /\ filtered' = fl
        /\ cursor' = cur /\ offset' = 0
        /\ detail' = SelectedFinding(fl, cur)

Quit ==
    /\ quitting' = TRUE
    /\ UNCHANGED <<findings, list, filter, searching, mode, focus, size, detail>>

-----------------------------------------------------------------------------
(* Window events. *)

\* SetSize: the offset is not brought up to date.
Resize ==
    /\ ~quitting
    /\ size' \in [width : Widths, height : Heights]
    /\ detail' = SelectedFinding(filtered, cursor)
    /\ UNCHANGED <<findings, list, filter, searching, mode, focus, quitting>>

(* The search line. *)

OpenSearch ==
    /\ ListKeys /\ searching' = TRUE
    /\ UNCHANGED <<findings, list, filter, mode, focus, size, detail, quitting>>

\* Every other key, Ctrl+C among them, goes to the text field and the list follows it.
Type ==
    /\ ~quitting /\ searching
    /\ \E t \in Texts : ApplyFilter([filter EXCEPT !.search = t])
    /\ UNCHANGED <<findings, searching, mode, focus, size, quitting>>

AcceptSearch ==
    /\ ~quitting /\ searching /\ searching' = FALSE
    /\ ApplyFilter(filter)
    /\ UNCHANGED <<findings, mode, focus, size, quitting>>

\* Escape closes the line; what was typed stays.
LeaveSearch ==
    /\ ~quitting /\ searching /\ searching' = FALSE
    /\ UNCHANGED <<findings, list, filter, mode, focus, size, detail, quitting>>

(* Movement; in a focused detail pane the same keys scroll its text. *)

OnList == ListKeys /\ ~(focus = "detail" /\ Wide)

MoveCursor(delta) == OnList /\ MoveTo(Clamp(cursor + delta, Len(filtered)))
Up == MoveCursor(-1)
Down == MoveCursor(1)
PageUp == MoveCursor(-VisibleCount(size.height))
PageDown == MoveCursor(VisibleCount(size.height))

\* Whatever has the focus.
Top ==
    /\ ListKeys /\ cursor' = 1 /\ offset' = 0
    /\ detail' = SelectedFinding(filtered, 1)
    /\ UNCHANGED <<findings, filtered, filter, searching, mode, focus, size, quitting>>
Bottom == ListKeys /\ MoveTo(IF filtered = <<>> THEN 1 ELSE Len(filtered))

(* Filters. *)

CycleSev ==
    /\ ListKeys
    /\ ApplyFilter([filter EXCEPT !.severity =
         IF @ = All THEN 0 ELSE IF @ = 3 THEN All ELSE @ + 1])
    /\ UNCHANGED <<findings, searching, mode, focus, size, quitting>>

NextService(s) ==
    LET at == {i \in DOMAIN Services : Services[i] = s} IN
    IF at = {} THEN (IF Services = <<>> THEN "" ELSE Services[1])
    ELSE LET i == CHOOSE i \in at : TRUE IN IF i = Len(Services) THEN "" ELSE Services[i + 1]
CycleSvc ==
    /\ ListKeys
    /\ ApplyFilter([filter EXCEPT !.service = NextService(@)])
    /\ UNCHANGED <<findings, searching, mode, focus, size, quitting>>

Reset ==
    /\ ListKeys /\ ApplyFilter(NoFilter)
    /\ UNCHANGED <<findings, searching, mode, focus, size, quitting>>

(* Panes, overlays, the end. *)

Show(m, f) ==
    /\ mode' = m /\ focus' = f
    /\ UNCHANGED <<findings, list, filter, searching, size, detail, quitting>>

\* Enter: the pane beside the list, or the whole window.
Enter ==
    /\ ListKeys /\ SelectedFinding(filtered, cursor) # 0
    /\ IF Wide THEN Show("list", "detail")
       ELSE /\ mode' = "detail" /\ detail' = SelectedFinding(filtered, cursor)
            /\ UNCHANGED <<findings, list, filter, searching, focus, size, quitting>>

Back ==
    /\ Keys
    /\ \/ mode \in {"open", "help"} /\ Show("list", focus)
       \/ /\ mode = "detail" /\ mode' = "list"
          /\ detail' = SelectedFinding(filtered, cursor)
          /\ UNCHANGED <<findings, list, filter, searching, focus, size, quitting>>
       \/ mode = "list" /\ Wide /\ focus = "detail" /\ Show("list", "list")
       \/ mode = "list" /\ ~(Wide /\ focus = "detail") /\ Quit

Tab == ListKeys /\ Wide /\ Show("list", IF focus = "list" THEN "detail" ELSE "list")

\* The help closes into the list, wherever it was opened.
Help ==
    /\ Keys /\ mode # "open"
    /\ Show(IF mode = "help" THEN "list" ELSE "help", focus)

\* The modal, when there are two reports; its answers m and b go back to the list.
Open == ListKeys /\ Show("open", focus)
OpenReport == Keys /\ mode = "open" /\ Show("list", focus)

QuitKey == Keys /\ Quit

-----------------------------------------------------------------------------
Done == quitting /\ UNCHANGED vars

Next ==
    \/ Resize \/ OpenSearch \/ Type \/ AcceptSearch \/ LeaveSearch
    \/ Up \/ Down \/ PageUp \/ PageDown \/ Top \/ Bottom
    \/ CycleSev \/ CycleSvc \/ Reset
    \/ Enter \/ Back \/ Tab \/ Help \/ Open \/ OpenReport \/ QuitKey \/ Done

Spec == Init /\ [][Next]_vars

-----------------------------------------------------------------------------
(* What renderListBody draws, and the properties. *)

\* Lines up to and including a row: one a row, and a divider where the severity changes.
LinesTo(row, off) ==
    LET Sev(i) == findings[filtered[i]].rank
        changes == {i \in off + 2..row : Sev(i) # Sev(i - 1)}
    IN  row - off + Cardinality(changes)

Drawn(row, off, h) == off < row /\ LinesTo(row, off) <= Body(h)

\* What is selected is what the user sees: the list holds the findings of the filter in
\* their order, the cursor is on one of them unless there is none, and the detail pane
\* shows the one under the cursor (applyFilter, moveCursor, refreshDetail), through every
\* mixture of typing, resizing, overlays and filters.
SelectionSound ==
    /\ filtered = ApplyFilters(findings, filter)
    /\ filtered # <<>> => cursor \in DOMAIN filtered
    /\ size.width # 0 => detail = SelectedFinding(filtered, cursor)

\* After a key that moves the cursor the selected row is on the screen: the page's
\* allowance of three lines (visibleCount: "the renderer clips anyway") covers every
\* divider renderListBody can draw above it.
MovementVisible ==
    [][ (Up \/ Down \/ PageUp \/ PageDown \/ Top \/ Bottom) /\ size.height # 0 /\ filtered # <<>> =>
        Drawn(cursor', offset', size.height) ]_vars
=============================================================================
