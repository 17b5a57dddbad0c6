----------------------------- MODULE MCCommands -----------------------------
(* Every command, its arguments all given or none, and each in turn at the   *)
(* lengths where the encoding changes.                                       *)
EXTENDS Commands

CONSTANTS Lens, SweptLens

Uniform(c, n) == [i \in DOMAIN c.args |-> n]

Buffers(c) == {i \in DOMAIN c.args : c.args[i].size = Buffer}

Focused(c) ==
    {[Uniform(c, 1) EXCEPT ![i] = len] : i \in Buffers(c), len \in Lens}
      \cup {[Uniform(c, 0) EXCEPT ![i] = 128] : i \in Buffers(c)}

Numbered(c) == {[Uniform(c, 1) EXCEPT ![i] = 0] : i \in DOMAIN c.args}

MCGivens(c) ==
    {Uniform(c, 0), Uniform(c, 1)} \cup Focused(c) \cup Numbered(c)
      \cup (IF c.name = "WriteBinary" THEN {[Uniform(c, 1) EXCEPT ![5] = len] : len \in SweptLens} ELSE {})

EveryLength == 0..320

LengthEdges == {0, 128, 255, 1100}

Channels == BOOLEAN

(* Answers of every kind, where the arguments are not themselves the question. *)
MCAnswerSizes(given) ==
    IF \A i \in DOMAIN given : given[i] \in {0, 1} THEN {0, 1, 128, 256, 257} ELSE {128}
=============================================================================
