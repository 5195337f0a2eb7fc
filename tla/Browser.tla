------------------------------- MODULE Browser -------------------------------
(***************************************************************************)
(* The stream browser (src/src/browser.rs): a list of collectors, the list *)
(* of streams of the selected one, a search filter over both, and keys and *)
(* mouse events that move the selection until a stream is opened.          *)
(*                                                                         *)
(* One step is one turn of the event loop: the handler of the event, then  *)
(* the scrolling and drawing in front of the next one.  Positions in lists *)
(* count from 1 and None is 0, so that Some(0) of the code is 1; an absent *)
(* record or list is the empty sequence.  A scroll offset is the number of *)
(* rows above the pane.                                                    *)
(***************************************************************************)
EXTENDS Integers, Sequences, FiniteSets, SequencesExt

CONSTANTS
  Collectors, \* the collectors in their order, each with its streams
  Chars,      \* what may be typed
  MaxFilter,  \* bound on the length of the filter
  Heights     \* the rows a pane may have

None    == 0
Nothing == <<>>
All     == <<>>     \* no stream is filtered out
Only(s) == <<s>>    \* those at the positions s are shown

Panes == {"Collectors", "Streams"}

(* hits: the filters that are found in a stream's own texts.               *)
(* peer: RouteViews metadata is known; zero: it is AS0.                    *)
StreamType    == [hits: SUBSET Seq(Chars), peer: BOOLEAN, zero: BOOLEAN]
(* hits: the filters found in the name or the label.                       *)
CollectorType == [hits: SUBSET Seq(Chars), undefined: BOOLEAN,
                  streams: Seq(StreamType)]

ASSUME LimitAssumption == MaxFilter \in Nat /\ Heights \subseteq Nat
ASSUME CollectorsAssumption ==
  /\ Collectors \in Seq(CollectorType)
  /\ \A c \in DOMAIN Collectors : Collectors[c].streams # <<>>
  (* as BrowserModel::new sorts them                                       *)
  /\ \A c, d \in DOMAIN Collectors : c < d =>
       \/ ~Collectors[c].undefined /\ Collectors[d].undefined
       \/ /\ Collectors[c].undefined = Collectors[d].undefined
          /\ Len(Collectors[c].streams) >= Len(Collectors[d].streams)

VARIABLES
  ui,      \* "open", "quit", "opened" or "panicked"
  opened,  \* the stream returned, <<collector, stream>>
  model,   \* BrowserModel
  rows,    \* content rows of the panes, as drawn last
  tracker, \* ClickTracker: the pane and row clicked last, or Nothing
  clicked  \* history: a collector was clicked since the stream filter was
           \* computed last

browserVars == <<ui, opened, model, rows, tracker, clicked>>
-----------------------------------------------------------------------------
(* The model and what is seen of it.                                       *)

Positions(s) == [i \in DOMAIN s |-> i]

(* The positions in S from top to bottom.                                  *)
Ascending(S) ==
  [k \in 1..Cardinality(S) |->
     CHOOSE i \in S : Cardinality({j \in S : j < i}) = k - 1]

(* current_collector and current_streams                                   *)
Current(m) == IF m.collector \in DOMAIN m.listed THEN m.listed[m.collector] ELSE None
Streams(m) == IF Current(m) = None THEN <<>> ELSE Collectors[Current(m)].streams

(* The positions of the streams in the right pane, from top to bottom.     *)
Shown(m) == IF m.filtered = All THEN Positions(Streams(m)) ELSE m.filtered[1]

Visible(m) == {Shown(m)[i] : i \in DOMAIN Shown(m)}

(* Variant: a selection is kept wherever it is.                            *)
KeepAny(sel, len) == IF sel # None \/ len = 0 THEN sel ELSE 1

(* clamp_opt                                                               *)
Clamp(sel, len) == IF sel \in 1..len THEN sel ELSE IF len > 0 THEN 1 ELSE None

Listed(f, c) ==
  IF f = <<>> THEN ~Collectors[c].undefined
  ELSE \/ f \in Collectors[c].hits
       \/ \E s \in DOMAIN Collectors[c].streams : f \in Collectors[c].streams[s].hits

(* A collector that matches by its own name shows all its streams.         *)
StreamFilter(m) ==
  IF m.filter = <<>> \/ (Current(m) # None /\ m.filter \in Collectors[Current(m)].hits)
  THEN All
  ELSE Only(Ascending({s \in DOMAIN Streams(m) : m.filter \in Streams(m)[s].hits}))

(* Variant: the selected stream is left alone.                             *)
RecomputeFilterOnly(m) == [m EXCEPT !.filtered = StreamFilter(m)]

(* recompute_stream_filter.  A selected stream that is not shown any more  *)
(* gives way to the collector's first one, shown or not.                   *)
Recompute(m) ==
  LET n == [m EXCEPT !.filtered = StreamFilter(m)]
  IN  IF n.stream = None \/ n.stream \in Visible(n) THEN n
      ELSE [n EXCEPT !.stream = IF Shown(n) # <<>> THEN 1 ELSE None]

(* rebuild_filter                                                          *)
Rebuild(m) ==
  LET searched == [m EXCEPT !.listed =
                     Ascending({c \in DOMAIN Collectors : Listed(m.filter, c)})]
      picked   == [searched EXCEPT !.collector = Clamp(@, Len(searched.listed))]
      n        == Recompute([picked EXCEPT !.stream = Clamp(@, Len(Streams(picked)))])
  IN  [n EXCEPT !.pane = IF Shown(n) = <<>> THEN "Collectors"
                         ELSE IF n.listed = <<>> THEN "Streams" ELSE @]

New ==
  Rebuild([filter |-> <<>>, listed |-> <<>>, collector |-> None, stream |-> None,
           pane |-> "Collectors", cScroll |-> 0, sScroll |-> 0, filtered |-> All])
-----------------------------------------------------------------------------
(* The actions of the model.                                               *)

(* dec_opt, which knows nothing of the list.                               *)
Dec(sel) == IF sel <= 1 THEN sel ELSE sel - 1

(* dec_opt_in_list: the one before sel in the ascending list, sel itself   *)
(* at its start; without a selection the last one.                         *)
Before(sel, list) ==
  LET less == {i \in DOMAIN list : list[i] < sel}
  IN  IF sel = None /\ list # <<>> THEN Last(list)
      ELSE IF less = {} THEN sel
      ELSE list[CHOOSE i \in less : \A j \in less : j <= i]

(* inc_opt and inc_opt_in_list; without a selection the first one.         *)
After(sel, list) ==
  LET more == {i \in DOMAIN list : list[i] > sel}
  IN  IF more = {} THEN sel ELSE list[CHOOSE i \in more : \A j \in more : i <= j]

MoveUp(m) ==
  IF m.pane = "Collectors"
  THEN Recompute([m EXCEPT !.collector = Dec(@)])
  ELSE [m EXCEPT !.stream = IF m.filtered = All THEN Dec(@) ELSE Before(@, Shown(m))]

MoveDown(m) ==
  IF m.pane = "Collectors"
  THEN Recompute([m EXCEPT !.collector = After(@, Positions(m.listed))])
  ELSE [m EXCEPT !.stream = After(@, Shown(m))]

(* first_useful_visible_stream                                             *)
FirstUseful(m) ==
  LET streams == Streams(m)
      first(P(_)) == SelectSeq(Shown(m), P)
      known == first(LAMBDA s : streams[s].peer)
      other == first(LAMBDA s : ~streams[s].zero)
  IN  IF Shown(m) = <<>> THEN None
      ELSE IF known # <<>> THEN known[1]
      ELSE IF other # <<>> THEN other[1]
      ELSE Shown(m)[1]

ToStreams(m) ==
  [m EXCEPT !.pane = "Streams", !.stream = IF @ = None THEN FirstUseful(m) ELSE @]

FocusStreams(m)    == IF Shown(m) # <<>> THEN ToStreams(m) ELSE m
FocusCollectors(m) == IF m.listed # <<>> THEN [m EXCEPT !.pane = "Collectors"] ELSE m
SwitchPane(m)      == IF m.pane = "Collectors" THEN FocusStreams(m)
                                               ELSE FocusCollectors(m)
EnterCollector(m)  == IF Streams(m) # <<>> THEN ToStreams(m) ELSE m

(* selected_topic                                                          *)
Selected(m) == IF m.stream \in DOMAIN Streams(m) THEN <<Current(m), m.stream>> ELSE Nothing

(* Variant: scrolls a row too late.                                        *)
ScrolledLate(sel, scroll, total, height) ==
  LET end  == IF total < height THEN 0 ELSE total - height
      kept == IF scroll < end THEN scroll ELSE end
  IN  IF total = 0 \/ height = 0 THEN 0
      ELSE IF sel = None THEN kept
      ELSE IF sel <= kept THEN sel - 1
      ELSE IF sel > kept + height + 1 THEN sel - height
      ELSE kept

(* ensure_visible: the offset of a pane so that position sel is in it.     *)
Scrolled(sel, scroll, total, height) ==
  LET end  == IF total < height THEN 0 ELSE total - height
      kept == IF scroll < end THEN scroll ELSE end
  IN  IF total = 0 \/ height = 0 THEN 0
      ELSE IF sel = None THEN kept
      ELSE IF sel <= kept THEN sel - 1
      ELSE IF sel > kept + height THEN sel - height
      ELSE kept

(* ensure_visible_scrolls.  The selected stream's position among all       *)
(* streams is taken for its row in the pane.                               *)
EnsureVisible(m, height) ==
  [m EXCEPT !.cScroll = Scrolled(m.collector, @, Len(m.listed), height),
            !.sScroll = Scrolled(m.stream, @, Len(Shown(m)), height)]

(* The rows of the stream pane that are drawn; a position without a stream *)
(* panics.                                                                 *)
Drawn(m, height) == {i \in DOMAIN Shown(m) : i \in (m.sScroll + 1)..(m.sScroll + height)}
Panics(m, height) == \E i \in Drawn(m, height) : Shown(m)[i] \notin DOMAIN Streams(m)
-----------------------------------------------------------------------------
(* The event loop of topic_browser.                                        *)

BrowserInit ==
  /\ ui = "open" /\ opened = Nothing
  /\ model = New
  /\ rows \in Heights
  /\ tracker = Nothing
  /\ clicked = FALSE

(* The turn of the loop after an event left the model as m.                *)
Turn(m) ==
  /\ model' = EnsureVisible(m, rows)
  /\ ui' = IF Panics(model', rows) THEN "panicked" ELSE "open"
  /\ UNCHANGED <<opened, rows>>

(* A key resets the click tracker.                                         *)
Key(m) == ui = "open" /\ Turn(m) /\ tracker' = Nothing

Type(c) ==
  /\ Len(model.filter) < MaxFilter
  /\ Key(Rebuild([model EXCEPT !.filter = Append(@, c)]))
  /\ clicked' = FALSE

Backspace ==
  /\ Key(Rebuild([model EXCEPT !.filter = IF @ = <<>> THEN @ ELSE Front(@)]))
  /\ clicked' = FALSE

(* Moving in the left pane computes the stream filter anew.                *)
ClickedAfterMove(pane) == clicked' = (clicked /\ pane = "Streams")

Up       == Key(MoveUp(model)) /\ ClickedAfterMove(model.pane)
Down     == Key(MoveDown(model)) /\ ClickedAfterMove(model.pane)
Tab      == Key(SwitchPane(model)) /\ UNCHANGED clicked
Left     == Key(FocusCollectors(model)) /\ UNCHANGED clicked
Right    == Key(FocusStreams(model)) /\ UNCHANGED clicked

(* The browser returns the selected stream.                                *)
Return(m) ==
  /\ ui' = "opened" /\ opened' = Selected(m)
  /\ model' = m
  /\ UNCHANGED rows

Enter ==
  /\ UNCHANGED clicked
  /\ \/ /\ model.pane = "Collectors"
        /\ Key(EnterCollector(model))
     \/ /\ model.pane = "Streams" /\ Selected(model) = Nothing
        /\ Key(model)
     \/ /\ model.pane = "Streams" /\ Selected(model) # Nothing
        /\ ui = "open" /\ Return(model) /\ tracker' = Nothing

(* Esc or Ctrl-C.                                                          *)
Quit ==
  /\ ui = "open" /\ ui' = "quit"
  /\ UNCHANGED <<opened, model, rows, tracker, clicked>>

(* click_target: the position the k-th row of a pane stands for.           *)
Target(pane, k) ==
  IF pane = "Collectors"
  THEN IF model.cScroll + k \in DOMAIN model.listed THEN model.cScroll + k ELSE None
  ELSE IF model.sScroll + k \in DOMAIN Shown(model) THEN Shown(model)[model.sScroll + k]
       ELSE None

(* Variant: a second click counts whatever was clicked first.              *)
AnySecondClick(pane, at, quick) == quick /\ tracker # Nothing

(* is_double_click, if the second click comes in time.                     *)
DoubleClick(pane, at, quick) == quick /\ tracker = <<pane, at>>

(* A click only sets the selection: the stream filter is not recomputed.   *)
Pointed(pane, at) ==
  IF pane = "Collectors"
  THEN [model EXCEPT !.collector = at, !.pane = "Collectors"]
  ELSE [model EXCEPT !.stream = at, !.pane = "Streams"]

Click(pane, k, quick) ==
  LET at     == Target(pane, k)
      m      == Pointed(pane, at)
      double == DoubleClick(pane, at, quick)
  IN  /\ ui = "open" /\ at # None
      /\ IF double /\ pane = "Streams" /\ Selected(m) # Nothing THEN Return(m)
                                                             ELSE Turn(m)
      /\ tracker' = IF double THEN Nothing ELSE <<pane, at>>
      /\ clicked' = (clicked \/ pane = "Collectors")

(* Below the list, on a border or outside the panes.                       *)
ClickNothing == ui = "open" /\ Turn(model) /\ tracker' = Nothing /\ UNCHANGED clicked

Wheel(pane, up) ==
  LET m == [model EXCEPT !.pane = pane]
  IN  Key(IF up THEN MoveUp(m) ELSE MoveDown(m)) /\ ClickedAfterMove(pane)

(* The terminal is resized: drawn in the new size, scrolled to the old one.*)
Resize(height) ==
  /\ ui = "open" /\ height # rows
  /\ model' = EnsureVisible(model, rows)
  /\ rows' = height
  /\ ui' = IF Panics(model', height) THEN "panicked" ELSE "open"
  /\ UNCHANGED <<opened, tracker, clicked>>

(* No event within the poll timeout.                                       *)
Idle == ui = "open" /\ Turn(model) /\ UNCHANGED <<tracker, clicked>>

BrowserNext ==
  \/ \E c \in Chars : Type(c)
  \/ Backspace \/ Up \/ Down \/ Tab \/ Left \/ Right \/ Enter \/ Quit
  \/ \E pane \in Panes, k \in 1..rows, quick \in BOOLEAN : Click(pane, k, quick)
  \/ ClickNothing
  \/ \E pane \in Panes, up \in BOOLEAN : Wheel(pane, up)
  \/ \E height \in Heights : Resize(height)
  \/ Idle

BrowserSpec == BrowserInit /\ [][BrowserNext]_browserVars
-----------------------------------------------------------------------------
Filters == UNION {[1..n -> Chars] : n \in 0..MaxFilter}

(* Every variable has its type; a click leaves positions in the model that *)
(* the other list does not have.                                           *)
BrowserTypeOK ==
  /\ ui \in {"open", "quit", "opened", "panicked"}
  /\ opened = Nothing \/ (/\ opened[1] \in DOMAIN Collectors
                       /\ opened[2] \in DOMAIN Collectors[opened[1]].streams)
  /\ model.filter \in Filters
  /\ model.collector \in 0..Len(model.listed)
  /\ \A i \in DOMAIN model.listed : model.listed[i] \in DOMAIN Collectors
  /\ model.stream \in Nat /\ model.pane \in Panes
  /\ model.cScroll \in 0..Len(model.listed) /\ model.sScroll \in Nat
  /\ rows \in Heights
  /\ tracker = Nothing \/ (tracker[1] \in Panes /\ tracker[2] \in Nat \ {0})
  /\ clicked \in BOOLEAN

(* As long as no collector is clicked, the stream list is what the filter  *)
(* makes of the selected collector and is not empty (the two copies of the *)
(* search condition agree, browser.rs:643-663, 702-712), both selections   *)
(* exist whenever there is something to select, and drawing never indexes  *)
(* a stream that is not there, through any typing, moving and resizing     *)
(* (browser.rs:683, 1106, 1245-1259).                                      *)
InStepUnlessClicked ==
  ~clicked =>
    /\ ui # "panicked"
    /\ Current(model) # None => Shown(model) # <<>>
    /\ model.filtered = StreamFilter(model)
    /\ model.stream \in DOMAIN Streams(model) \cup {None}
    /\ model.collector = None <=> model.listed = <<>>
    /\ model.stream = None <=> Streams(model) = <<>>

(* Without a filter the selected rows are in their panes whenever the user *)
(* can act on them (browser.rs:142-149), even while the window is resized: *)
(* the turn after it brings them back.                                     *)
InPane(sel, scroll) == sel \in (scroll + 1)..(scroll + rows)

UnfilteredStaysInPane ==
  [][ui' = "open" /\ rows' = rows /\ rows > 0 /\ ~clicked' /\ model'.filtered = All
       => /\ model'.collector # None => InPane(model'.collector, model'.cScroll)
          /\ model'.stream # None    => InPane(model'.stream, model'.sScroll)]_browserVars

(* A double click opens the stream that is drawn in the clicked row, and   *)
(* only one that the click before it had already selected.                 *)
OpensSelected ==
  [][ui' = "opened" =>
       /\ opened' = Selected(model)
       /\ tracker # Nothing => tracker = <<"Streams", model.stream>>]_browserVars

(* "Filtered stream indices into current_streams()" (browser.rs:569): what *)
(* is drawn exists.                                                        *)
NeverPanics == ui # "panicked"

=============================================================================
