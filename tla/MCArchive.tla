----------------------------- MODULE MCArchive -----------------------------
(* Archive with two months, of two times and of one. *)
EXTENDS Archive

MCMonthOf == [t \in Time |-> IF t <= 2 THEN 1 ELSE 2]

MCAll == [include |-> Categories, days |-> FALSE, stores |-> TRUE, locked |-> TRUE]
(* What the backup page offers: everything, locked; the last days; no      *)
(* history; no reports and no latest values.                               *)
MCChoices == {
  MCAll,
  [MCAll EXCEPT !.days = TRUE, !.locked = FALSE],
  [MCAll EXCEPT !.include = @ \ {"telemetry_historical"}, !.locked = FALSE],
  [MCAll EXCEPT !.include = @ \ {"telemetry_latest", "reports"}, !.locked = FALSE]}
(* ClickHouse's latest values are not in a backup without history, and     *)
(* the last days' history does not have them all.                          *)
MCOffered ==
  [f \in Flavors |->
    IF f = "clickhouse"
    THEN {o \in MCChoices : "telemetry_latest" \in o.include => Mode(o) = "all"}
    ELSE MCChoices]
MCOfferedAll == [f \in Flavors |-> MCChoices]

MCAnywhere == Steps
(* Every point but those between the list of the partitions and COPY.      *)
MCMonthAt == (Steps \union {"idle"}) \ {"dump", "copy"}
(* Every point but those between a count and the rows it counts.           *)
MCMergeAt == (Steps \union {"idle"}) \ {"ch_export", "import"}
=============================================================================
