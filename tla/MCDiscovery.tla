----------------------------- MODULE MCDiscovery -----------------------------
EXTENDS Discovery

Kind(id, answers) == [id |-> id, answers |-> answers, local |-> FALSE, dir |-> FALSE,
                      net |-> "lan"]

OpenClaw  == Kind(None, {"config", "ui", "/"})
GoClaw    == Kind(None, {"config"})
Titled    == Kind("unknown", {"config", "/"})
Zeroclaw  == Kind(None, {"health", "paired"})
ZeroUi    == Kind(None, {"health", "paired", "/"})
Picoclaw  == Kind(None, {"health", "ready"})
NanoBot   == Kind(None, {"health", "nanobot"})
Python    == Kind(None, {"health", "python"})
ApiBot    == Kind(None, {"api", "api.nanobot"})
OpenFang  == Kind("unknown", {"api", "api.ok"})
Degraded  == Kind(None, {"api", "api.openfang"})
Here(k)   == [k EXCEPT !.local = TRUE]
Over(k, net) == [k EXCEPT !.net = net]
Project   == [Here(Kind(None, {})) EXCEPT !.dir = TRUE]

MCKinds == {OpenClaw, GoClaw, Titled, Zeroclaw, ZeroUi, Picoclaw, NanoBot, Python, ApiBot,
            OpenFang, Degraded, Here(OpenClaw), Here(Python), Here(Degraded), Project,
            Over(OpenClaw, "peer"), Over(GoClaw, "vpn"), Over(NanoBot, "vpn")}
MCFlapping == {Zeroclaw, Picoclaw, ApiBot, Degraded}

\* The implementations under which a kind may be known, in spite of requests that fail.
KnownAs(k) ==
  LET ids   == {<<k.id, k.answers>>, <<None, {}>>}
      heard == IF IsOpenClaw(k.answers) /\ k.net = "lan" THEN {None} ELSE {}
  IN  heard \cup UNION {Found(c, p[1], p[2]) : c \in {"none", ConfigOf(k.answers)}, p \in ids}

\* The flapping kinds are those some discovery finds under an implementation whose health
\* check they fail.
ASSUME FlappingKinds ==
  MCFlapping = {k \in MCKinds : ~k.local /\ \E i \in KnownAs(k) : ~HealthOk(i, k.answers)}
=============================================================================
