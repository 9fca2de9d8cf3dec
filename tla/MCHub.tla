-------------------------------- MODULE MCHub --------------------------------
(* Hub for TLC; liveness rules symmetry out.                                  *)
EXTENDS Hub

Stating(s, f, v) == [t \in {s} |-> [g \in {f} |-> v]]

\* An empty object, an empty section, one stated field with a value on each
\* side of its rule, and a misspelt key at either level.
Bodies ==
    {NoBody, [t \in {"server"} |-> NoBody], Stating("servers", "port", Number(90000)),
     Stating("server", "prot", Number(90000))}
    \cup {Stating("server", "host", Text(t)) : t \in {"", "127.0.0.1"}}
    \cup {Stating("server", "port", Number(n)) :
            n \in {10230, 10240, 80805, 655350, 655360}}
    \cup {Stating("logger", "level", Text(t)) : t \in {"error", "loud"}}
    \cup {Stating("logger", "maxFileSize", Text(t)) : t \in {"1B", "10MB"}}
    \cup {Stating("logger", "maxFiles", Number(n)) : n \in {0, 10}}
    \cup {Stating("matter", "networkInterface", v) : v \in {Null, Text(""), Text("eth0")}}

Files ==
    {[kind |-> k, body |-> NoBody] : k \in {"missing", "unreadable", "garbled", "other"}}
    \cup {[kind |-> "object", body |-> b] : b \in Bodies}

Tokens == {"unset", "blank", "short", "spaced", "padded", "good"}
=============================================================================
