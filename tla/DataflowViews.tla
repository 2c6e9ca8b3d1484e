--------------------------- MODULE DataflowViews ---------------------------
(***************************************************************************)
(* The views of a dataflow on the web page (dataflow.js, rest.js and       *)
(* uplot/ of js/dataflow): a click on the histogram asks for the heat map  *)
(* of a time, a click on the heat map for the flows of a time and latency, *)
(* and a click on a flow for its correlation and for the records of it.    *)
(* Every view has made-up data until its first answer.                     *)
(***************************************************************************)
EXTENDS Page

VARIABLE charted   \* the bar charts Google's library has been loaded for

Bars == {"flows", "correlation"}
FlowPanels == Bars \cup {"histogram", "heatmap", "records"}

DataflowTypeOK == charted \subseteq Bars

DataflowInit == charted = {}

\* executeDataflow: rest.volume.
ExecuteDataflow == Ask({"histogram"}) /\ UNCHANGED charted

\* The histogram's click handler: rest.heatmap.
ClickHistogram == Ask({"heatmap"}) /\ UNCHANGED charted

\* The heat map's: rest.dataflowsForTime.
ClickHeatmap == Ask({"flows"}) /\ UNCHANGED charted

\* drilldown of a bar: rest.dataflowsForCorrelation and rest.loadCorrelation.
Drilldown ==
  /\ "flows" \in charted
  /\ Ask({"correlation", "records"})
  /\ UNCHANGED charted

\* A bar chart cannot be drawn before the library is there.
Undrawn == Bars \ charted

\* Mutant: a bar chart draws without its library, which then draws the made-up data.
FlowsDrawnEarly ==
  /\ \E c \in calls : c.k \in FlowPanels /\ (Refuse(c) \/ Answer(c))
  /\ UNCHANGED charted

\* The answer is drawn, or it cannot be; a failure is an alert.
FlowsDrawn ==
  /\ \E c \in calls :
       /\ c.k \in FlowPanels
       /\ Refuse(c) \/ (Answer(c) /\ c.k \notin Undrawn)
  /\ UNCHANGED charted

\* loaded1, loaded2: the made-up data is drawn.
ChartLoaded(p) ==
  /\ p \in Undrawn
  /\ charted' = charted \cup {p}
  /\ shown' = [shown EXCEPT ![p] = 0]
  /\ UNCHANGED <<spinner, action, calls, asked, unsure, lost, crowded>>

DataflowActs == ExecuteDataflow \/ ClickHistogram \/ ClickHeatmap \/ Drilldown
DataflowAnswers == FlowsDrawn \/ \E p \in Bars : ChartLoaded(p)
=============================================================================
