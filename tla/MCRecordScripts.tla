-------------------------- MODULE MCRecordScripts --------------------------
(***************************************************************************)
(* Three reports, two of them of releases that differ in the connection    *)
(* and one without identifiers; a result of a report that is not listed; a *)
(* case without an identifier of its own, one that only a result names.    *)
(* The correction adds the report, a configuration, a step, a case that is *)
(* deprecated and a result whose remark tells no connection; it says of a  *)
(* result with an issue that it is of another report, and gives an issue   *)
(* to one without.                                                         *)
(***************************************************************************)
EXTENDS RecordScripts, TLC

A  == <<"WIFI_1ST", "1AP_1HDR">>
B  == <<"WIFI_2ND", "25AP">>
B2 == <<"WIFI_2ND", "2AP">>
C  == <<"LATE", "1HDR_1ROUTER">>
regular == <<"TEST", "1AP_1HDR", <<"dhcp">>>>
reboot  == <<"ODD", "", <<"reboot">>>>
unknown == <<"TEST", "1HDR_1ROUTER", <<"roam">>>>
retired == <<"DEPRECATED", "1AP_1HDR", <<"dhcp">>>>
hrk == <<"HRK", "001">>
hdr == <<"HDR", "096">>

ResultRow(no, rid, config, case, combo, issues) ==
  [no |-> no, rid |-> rid, config |-> config, case |-> case, combo |-> combo, issues |-> issues]
ReportRow(alias, rids, targets) == [alias |-> alias, rids |-> rids, targets |-> targets]

First ==
  [reports |-> <<ReportRow("first", <<A, B>>, <<hrk, hdr>>), ReportRow("tbd", <<>>, <<>>)>>,
   configs |-> <<"lab">>, order |-> ("lab" :> 1 @@ "field" :> 2 @@ "car" :> 3),
   steps   |-> (regular :> 2 @@ reboot :> 1), testers |-> {"kim"},
   results |-> <<ResultRow(1, A, "lab", regular, "1AP_1HDR", <<"i1">>),
                 ResultRow(2, A, "field", reboot, "1HDR_1ROUTER", <<>>),
                 ResultRow(3, C, None, unknown, "25AP", <<"i2", "i3">>)>>]

Corrected ==
  [First EXCEPT !.reports = @ \o <<ReportRow("first", <<C, B2>>, <<hdr>>)>>,
                !.configs = @ \o <<"car">>,
                !.steps = [@ EXCEPT ![regular] = 3] @@ (unknown :> 1 @@ retired :> 1),
                !.results = [@ EXCEPT ![1].rid = B, ![2].issues = <<"i4">>]
                            \o <<ResultRow(4, A, None, None, "", <<>>)>>]

Workbooks == <<First, Corrected>>

NormalOf  == "1AP_1HDR" :> "1HDR_1ROUTER" @@ "1HDR_1ROUTER" :> "1HDR_1ROUTER"
             @@ "25AP" :> Unclassified @@ "2AP" :> Unclassified @@ Unclassified :> Unclassified @@ "" :> Unclassified
LegacyCombos == {"1AP_1HDR", "25AP", "2AP"}
LengthOf  == "1HDR_1ROUTER" :> 2 @@ Unclassified :> 0
DeviceOf  == "1AP_1HDR" :> "HDR" @@ "1HDR_1ROUTER" :> "HDR" @@ Unclassified :> None
Scenarios == reboot :> "DUT_REBOOT"
Mapping   == "WIFI_1ST" :> "R1" @@ "WIFI_2ND" :> "R2"
Diagnosed == <<"RUN", A, "lab">> :> <<hrk, hdr>>
WantedTargets == {hrk, hdr}
NewTarget == <<"HLM", "014">>
=============================================================================
