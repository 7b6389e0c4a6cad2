---------------------------- MODULE MCPolicyCheck ----------------------------
(* Policies of every kind and type over two metrics of two hosts.  Values  *)
(* are multiples of 12, so that means of up to four are whole.  Series end *)
(* at different times, one source may answer samples that are older than   *)
(* those before, and twice for one host; the names of two hosts are no     *)
(* addresses; series may be empty; the shields of one host overlap, and    *)
(* end meanwhile.                                                          *)
EXTENDS PolicyCheck
CONSTANTS cpu, load, any, h1, h2, n1, n2
MCMetrics == {cpu, load}
MCHosts == {h1, h2, n1, n2}
MCStringToIP == [h \in MCHosts |-> CASE h = h1 -> 1 [] h = h2 -> 2 [] OTHER -> 0]
Series(m, h, a, v) == [metric |-> m, host |-> h, ago |-> a, values |-> v]
Unused == [value |-> 0, ratio |-> 0]
Base == [kind |-> "threshold", type |-> "single", metrics |-> {cpu}, filtered |-> {},
         up |-> 24, down |-> 0, asc |-> [value |-> 12, ratio |-> 1],
         desc |-> [value |-> 24, ratio |-> 0], cycles |-> 0, minHosts |-> 2, answers |-> {{}}]

Some == { {Series(cpu, h1, <<1, 0>>, <<12, 36>>), Series(cpu, h2, <<0>>, <<48>>)},
          {Series(cpu, h1, <<1, 0>>, <<12, Invalid>>), Series(cpu, h2, <<0>>, <<Invalid>>)},
          {Series(cpu, h2, <<2>>, <<36>>), Series(cpu, h2, <<1>>, <<12>>)},
          {Series(cpu, n1, <<0>>, <<12>>), Series(cpu, n2, <<1>>, <<48>>), Series(cpu, h1, <<>>, <<>>)} }
Spread == { {Series(cpu, h1, <<5, 2, 0>>, <<12, 24, 12>>), Series(cpu, h2, <<3, 2>>, <<12, 36>>),
             Series(load, h1, <<0>>, <<12>>)},
            {Series(cpu, h1, <<4, 3, 1>>, <<Invalid, 12, Invalid>>), Series(load, h2, <<0>>, <<Invalid>>),
             Series(cpu, n2, <<3>>, <<24>>)},
            {Series(load, h1, <<0>>, <<Invalid>>), Series(cpu, n1, <<>>, <<>>)} }
Trend == { {Series(cpu, h1, <<a>>, <<12>>)} : a \in {0, 2} }
         \cup { {Series(cpu, h1, <<a>>, <<36>>), Series(cpu, h1, <<1>>, <<24>>)} : a \in {0, 2} }
Cycle == { {Series(cpu, h1, <<0>>, <<12>>)}, {Series(cpu, h1, <<0>>, <<36>>), Series(cpu, h2, <<0>>, <<12>>)}, {} }

MCPolicies == {
  [Base EXCEPT !.answers = Some],
  [Base EXCEPT !.answers = Some, !.filtered = {<<cpu, 1>>}],
  [Base EXCEPT !.type = "host total", !.metrics = {cpu, load}, !.answers = Spread],
  [Base EXCEPT !.type = "metric total", !.metrics = {cpu, load}, !.answers = Spread],
  [Base EXCEPT !.kind = "trend", !.answers = Trend],
  [Base EXCEPT !.kind = "cycle", !.cycles = 2, !.answers = Cycle],
  [Base EXCEPT !.kind = "cycle", !.type = "host total", !.cycles = 2, !.answers = Cycle],
  [Base EXCEPT !.kind = "singularity", !.answers = Some],
  [Base EXCEPT !.kind = "availability", !.answers = Some],
  [Base EXCEPT !.metrics = {}] }
OneSource == [m \in MCMetrics |-> {1}]
TwoSources == [m \in MCMetrics |-> IF m = cpu THEN {1} ELSE {2}]
MCSmoothingFactor == [p \in Packages |-> 1]
MCTrendFactor == [p \in Packages |-> IF p = "old" THEN 1 ELSE 0]
MCExpire == [p \in Packages |-> IF p = "old" THEN 2 ELSE 1]
MCShields == <<[metrics |-> {cpu, any}, hosts |-> {0, 2}, until |-> 7],
               [metrics |-> {cpu, load}, hosts |-> {2}, until |-> 8]>>
=============================================================================
