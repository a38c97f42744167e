---------------------------- MODULE MCExecution -----------------------------
EXTENDS Execution

CONSTANTS c1, c2

File(p, x) == [path |-> p, mode |-> "100644", content |-> x]
Change(p, x) == [path |-> p, content |-> x]

\* Two files, one of them declared; another commit has both paths.
MCBase == {File("routes", "old"), File("main", "kept")}
MCOther == {File("routes", "changed"), File("main", "kept")}
MCAncestors == [p \in {"routes", "main"} |-> IF p = "routes" THEN {"backend"} ELSE {}]

\* Good, the same content, a secret, an undeclared file.
MCChangeSets == {{Change("routes", "new")}, {Change("routes", "old")},
                 {Change("routes", "secret")}, {Change("main", "new")}}

Card(origin, model) == [origin |-> origin, model |-> model]

\* Two commands of one card with different options, and one of another card.
Full == [journal |-> TRUE, card |-> Card("rest", "deepseek"), worker |-> "container",
         verifier |-> "signed"]
Plain == [journal |-> FALSE, card |-> Card("rest", "deepseek"), worker |-> "process",
          verifier |-> "docker"]
Local == [journal |-> FALSE, card |-> Card("archive", "local"), worker |-> "container",
          verifier |-> "docker"]

MCModeOf == [c \in Commands |-> IF c = c1 THEN {Full, Local} ELSE {Plain}]
=============================================================================
