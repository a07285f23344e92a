------------------------------ MODULE MCConfig ------------------------------
(* An instance of Config for TLC.                                          *)
EXTENDS Config

Set(k, v) == [key |-> k, bare |-> FALSE, value |-> v]
Bare(k) == [key |-> k, bare |-> TRUE, value |-> <<>>]

(* Short passwords of every troublesome character, blanks within only.     *)
Chars == {";", "=", "\\", "x"}
MCPasswords == {<<>>} \cup {<<c>> : c \in Chars} \cup {<<c, d>> : c, d \in Chars}
               \cup {<<c, " ", d>> : c, d \in {"x", "\\"}} \cup {<<"\\", "\\", ";">>}

MCSettings ==
  {Set("p", v) : v \in MCPasswords}
  \cup {Set("s", v) : v \in {<<"0">>, <<"1">>, <<>>, <<"x">>}}
  \cup {Set(k, v) : k \in {"n", "k", "i"}, v \in {<<"f">>, <<"x">>}}
  \cup {Set(k, v) : k \in {"g", "t"}, v \in {<<"0">>, <<"1">>, <<"x">>}}
  \cup {Set("n", <<>>), Set("u", <<"x">>), Bare("s"), Bare("p")}

MCAlphabet == Chars \cup {" ", "0", "1", "f", "g", "i", "k", "n", "p", "s", "t", "u"}

MCWishes == {<<>>} \cup {<<a>> : a \in MCSettings} \cup {<<a, b>> : a, b \in MCSettings}

MCPads == {<<>>, <<" ">>}

MCForms == {"literal", "[v6]", "v6", "name", "empty", "badport", "unresolved"}
Address(name, form) == [at |-> name, form |-> form]

MCFiles ==
  [role : {"none", "client", "server", "x"},
   opts : UNION {[ks -> {<<"f">>, <<"0">>, <<"1">>, <<>>}] : ks \in SUBSET {"p", "n", "t"}}
          \cup UNION {[ks -> {<<"f">>, <<"1">>}] : ks \in SUBSET {"p", "k", "i", "g", "u"}},
   listen : {Address("listen", f) : f \in MCForms},
   remote : {Address("remote", f) : f \in {"literal", "v6"}}]
=============================================================================
