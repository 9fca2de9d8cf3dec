------------------------------ MODULE Settings ------------------------------
(***************************************************************************)
(* What the process is told from outside: the secret in its environment,   *)
(* and the configuration file with its defaults.                           *)
(*                                                                         *)
(* A JSON number is given in tenths, so that one with a fraction can be    *)
(* said; a text stands for the texts its field's rule does not tell apart. *)
(***************************************************************************)
EXTENDS Integers

Text(t) == [json |-> "string", text |-> t, tenths |-> 0]
Number(n) == [json |-> "number", text |-> "", tenths |-> n]
Null == [json |-> "null", text |-> "", tenths |-> 0]

-----------------------------------------------------------------------------
(* The environment *)

\* Blanks around a value go, and one with nothing else is not set.
Read(variable) ==
    IF variable = "blank" THEN "unset"
    ELSE IF variable = "padded" THEN "good" ELSE variable

\* The secret: set, of eight characters, none of them a separator.
TokenAccepted(variable) == Read(variable) \notin {"unset", "short", "spaced"}

-----------------------------------------------------------------------------
(* The configuration file *)

Fields ==
    [server |-> {"host", "port"},
     logger |-> {"level", "maxFileSize", "maxFiles"},
     matter |-> {"networkInterface"}]

Levels == {"debug", "info", "notice", "warn", "error", "fatal"}

\* Texts of the form <integer><B|K|M|G>.
Sizes == {"10M", "1B"}

Default ==
    [host |-> Text("0.0.0.0"), port |-> Number(80800),
     level |-> Text("info"), maxFileSize |-> Text("10M"), maxFiles |-> Number(50),
     networkInterface |-> Null]

Integer(v) == v.json = "number" /\ v.tenths % 10 = 0
NonEmpty(v) == v.json = "string" /\ v.text # ""

Accepts(field, v) ==
    \/ field = "host" /\ NonEmpty(v)
    \/ field = "port" /\ Integer(v) /\ v.tenths \in 10240 .. 655350
    \/ field = "level" /\ v.json = "string" /\ v.text \in Levels
    \/ field = "maxFileSize" /\ v.json = "string" /\ v.text \in Sizes
    \/ field = "maxFiles" /\ Integer(v) /\ v.tenths >= 10
    \/ field = "networkInterface" /\ (v = Null \/ NonEmpty(v))

\* Mutant: a key that no schema knows is passed over.
ValidIfKnown(body) ==
    \A s \in DOMAIN body \cap DOMAIN Fields :
        \A f \in DOMAIN body[s] \cap Fields[s] : Accepts(f, body[s][f])

\* The strict sections.  An empty array in the place of a section is taken for
\* an empty one, and says as little.
Valid(body) ==
    \A s \in DOMAIN body :
        /\ s \in DOMAIN Fields
        /\ \A f \in DOMAIN body[s] : f \in Fields[s] /\ Accepts(f, body[s][f])

States(body, s, f) == s \in DOMAIN body /\ f \in DOMAIN body[s]

\* Defaults are given to fields, not to sections.
Filled(body) ==
    [s \in DOMAIN Fields |->
        [f \in Fields[s] |-> IF States(body, s, f) THEN body[s][f] ELSE Default[f]]]

NoBody == [s \in {} |-> Null]

\* A file is missing, unreadable, no JSON, JSON but no object, or an object.
Loadable(file) ==
    file.kind = "missing" \/ (file.kind = "object" /\ Valid(file.body))
Loaded(file) == Filled(IF file.kind = "missing" THEN NoBody ELSE file.body)
=============================================================================
