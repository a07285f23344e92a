------------------------------- MODULE Config -------------------------------
(***************************************************************************)
(* From the command line to a running client or server: main of            *)
(* src/main.rs, and the two sources of options of src/opts.rs, plugin_opts *)
(* text and a standalone config file.                                      *)
(*                                                                         *)
(* A text is a sequence of characters. A key is one character: "s", "p"    *)
(* (password), "n" (sni), "k" (serverkey), "i" (key), "g" (ping) or "t"    *)
(* (timeout), anything else is unknown. Of values other than passwords     *)
(* only what the checks tell apart is kept: <<"f">> is a valid key or SNI, *)
(* <<"0">> and <<"1">> are numbers and booleans.                           *)
(***************************************************************************)
EXTENDS Naturals, Sequences, FiniteSetsExt

CONSTANTS
  Alphabet,  \* the characters
  Wishes,    \* the settings a user may want to write in plugin_opts
  Pads,      \* the blanks a user may put around keys and values
  Files,     \* the config files a user may write
  Forms,     \* the ways to write an address
  MaxArgs    \* bound: arguments

(* The characters that mean something in plugin_opts.                      *)
Blank == " "
Semicolon == ";"
EqualSign == "="
Backslash == "\\"
Special == {Semicolon, EqualSign, Backslash}

(* Keys contain none of them; values neither begin nor end with a blank,   *)
(* which plugin_opts could not convey: it trims them.                      *)
ASSUME ConfigAssumption ==
  /\ Special \cup {Blank} \subseteq Alphabet
  /\ \A pad \in Pads : pad \in Seq({Blank})
  /\ \A ws \in Wishes :
       /\ ws \in Seq([key : Alphabet, bare : BOOLEAN, value : Seq(Alphabet)])
       /\ \A j \in 1..Len(ws) :
            /\ ws[j].key \notin Special \cup {Blank}
            /\ LET v == ws[j].value IN v # <<>> => v[1] # Blank /\ v[Len(v)] # Blank

VARIABLES
  pc,        \* where main stands
  nargs,     \* arguments read
  flags,     \* genkey, role_flag, opts_arg and config_path of main
  wish,      \* what the user wants: settings, or a file
  raw,       \* the plugin_opts text
  at,        \* the next character of it
  current,   \* the entry being read
  entries,   \* the entries read and not yet applied
  opts,      \* PluginOpts
  run        \* what client::run or server::run was given

scanVars == <<raw, at, current, entries>>
vars == <<pc, nargs, flags, wish, scanVars, opts, run>>

None == <<"none">>
Defaults == [s |-> "client", p |-> <<>>, n |-> <<"f">>, k |-> None, i |-> None,
             g |-> <<"2">>, t |-> <<"10">>]
Keys == DOMAIN Defaults
Integer(v) == v \in {<<"0">>, <<"1">>}
ValidKey(v) == v = <<"f">>             \* parse_pubkey_hex
ValidSni(v) == v \in {<<"f">>, <<>>}   \* an empty SNI is left out

-----------------------------------------------------------------------------
(* What a user does to write settings as plugin_opts: perhaps put blanks   *)
(* around keys and values, escape the special characters of the values or  *)
(* only those that would not be read as themselves, and join the entries   *)
(* with ";". A setting may lack the "=" and its value.                     *)
Escapings == {"all", "needed"}

(* The concatenation of the last k of some parts, and of all of them.      *)
Ends(parts) ==
  LET ends[k \in 0..Len(parts)] ==
        IF k = 0 THEN <<>> ELSE parts[Len(parts) - k + 1] \o ends[k - 1]
  IN ends
Concat(parts) == Ends(parts)[Len(parts)]

Padded(text, pad) == pad \o text \o pad

(* An entry before it is escaped.                                          *)
Plain(w, pad) ==
  Padded(<<w.key>>, pad) \o (IF w.bare THEN <<>> ELSE <<EqualSign>> \o Padded(w.value, pad))

(* A backslash may stay as it is if no special character follows.          *)
NeedsEscape(p, j) ==
  p[j] = Semicolon \/ (p[j] = Backslash /\ (j = Len(p) \/ p[j + 1] \in Special))

(* The "=" behind the key is not escaped.                                  *)
Marks(w, pad, esc) ==
  LET p == Plain(w, pad)
      Hidden(j) == /\ p[j] \in Special /\ j # Len(Padded(<<w.key>>, pad)) + 1
                   /\ esc = "needed" => NeedsEscape(p, j)
  IN [j \in 1..Len(p) |-> IF Hidden(j) THEN <<Backslash, p[j]>> ELSE <<p[j]>>]

Separator(ws, j) == IF j < Len(ws) THEN <<Semicolon>> ELSE <<>>

Parts(ws, pad, esc) ==
  [j \in 1..Len(ws) |-> Concat(Marks(ws[j], pad, esc)) \o Separator(ws, j)]

Compose(ws, pad, esc) == Concat(Parts(ws, pad, esc))

-----------------------------------------------------------------------------
Init ==
  /\ pc = "args" /\ nargs = 0
  /\ flags = [genkey |-> FALSE, role |-> "none", opts |-> FALSE, config |-> FALSE]
  /\ wish = <<>> /\ raw = <<>> /\ at = 1 /\ current = <<>> /\ entries = <<>>
  /\ opts = Defaults /\ run = <<>>

Goto(place) ==
  /\ pc' = place
  /\ UNCHANGED <<nargs, flags, wish, scanVars, opts, run>>

Arg(n) == pc = "args" /\ nargs + n <= MaxArgs /\ nargs' = nargs + n

(* -c takes the next argument, whatever it is; later flags win.            *)
FlagArg ==
  /\ \/ Arg(2) /\ flags' = [flags EXCEPT !.config = TRUE]
     \/ Arg(1) /\ flags' = [flags EXCEPT !.genkey = TRUE]
     \/ Arg(1) /\ \E r \in {"client", "server"} : flags' = [flags EXCEPT !.role = r]
     \/ Arg(1) /\ ~flags.opts /\ flags' = [flags EXCEPT !.opts = TRUE]
  /\ UNCHANGED <<pc, wish, scanVars, opts, run>>

(* -c at the end, a second positional argument, an unknown flag.           *)
BadArg == pc = "args" /\ nargs < MaxArgs /\ Goto("error")

HelpArg == pc = "args" /\ nargs < MaxArgs /\ Goto("exit")

ArgsEnd ==
  /\ pc = "args"
  /\ Goto(IF flags.genkey THEN "exit" ELSE IF flags.config THEN "file" ELSE "text")

Chosen(role) == IF flags.role = "none" THEN role ELSE flags.role

(* client::run binds local and dials remote, server::run binds remote and  *)
(* forwards to local.                                                      *)
Runs(role, o, local, remote) ==
  run' = [role |-> role, opts |-> o,
          listen |-> IF role = "client" THEN local ELSE remote,
          peer |-> IF role = "client" THEN remote ELSE local]

-----------------------------------------------------------------------------
(* Standalone. A file has a role, its options and two addresses.           *)
ConfigAddr(a) == a.form \in {"literal", "[v6]", "name", "empty"}   \* not a bare IPv6

Given(f, key) == key \in DOMAIN f.opts

(* serde refuses unknown keys and numbers that are none; the role, the     *)
(* keys, the password and the addresses are checked as in plugin_opts.     *)
FileParses(f) ==
  /\ DOMAIN f.opts \subseteq Keys \ {"s"}
  /\ \A key \in {"g", "t"} : Given(f, key) => Integer(f.opts[key])
  /\ f.role \in {"none", "client", "server"}
  /\ Given(f, "n") => ValidSni(f.opts["n"])
  /\ \A key \in {"k", "i"} : Given(f, key) => ValidKey(f.opts[key])
  /\ Given(f, "p") /\ f.opts["p"] # <<>>
  /\ ConfigAddr(f.listen) /\ ConfigAddr(f.remote)

(* A timeout of zero is let through.                                       *)
FileOkUntimed(f) == FileParses(f)

FileOk(f) == FileParses(f) /\ (Given(f, "t") => f.opts["t"] # <<"0">>)

FileOpts(f) == [key \in Keys |->
  IF key = "s" THEN IF f.role = "none" THEN "client" ELSE f.role
  ELSE IF Given(f, key) THEN f.opts[key] ELSE Defaults[key]]

(* standalone_sip003.                                                      *)
Pair(role, f) == IF role = "client" THEN <<f.listen, f.remote>> ELSE <<f.remote, f.listen>>

(* The pair is made for the role of the file, before the flag overrides it. *)
StartsEarlyPair(f) ==
  LET role == Chosen(FileOpts(f).s)
      sip == Pair(FileOpts(f).s, f)
  IN /\ opts' = [FileOpts(f) EXCEPT !.s = role]
     /\ Runs(role, opts', sip[1], sip[2])

Starts(f) ==
  LET role == Chosen(FileOpts(f).s)
      sip == Pair(role, f)
  IN /\ opts' = [FileOpts(f) EXCEPT !.s = role]
     /\ Runs(role, opts', sip[1], sip[2])

Standalone ==
  /\ pc = "file"
  /\ \E f \in Files :
       /\ wish' = f
       /\ IF FileOk(f) THEN pc' = "running" /\ Starts(f)
                       ELSE pc' = "error" /\ UNCHANGED <<opts, run>>
  /\ UNCHANGED <<nargs, flags, scanVars>>

-----------------------------------------------------------------------------
(* SIP003: the text of the positional argument or of SS_PLUGIN_OPTIONS.    *)
ReadOptions ==
  /\ pc = "text"
  /\ \E ws \in Wishes, pad \in Pads, esc \in Escapings :
       wish' = ws /\ raw' = Compose(ws, pad, esc)
  /\ pc' = "scan"
  /\ UNCHANGED <<nargs, flags, at, current, entries, opts, run>>

(* An escaped backslash is taken for two characters.                       *)
EscapedButBackslash(j) == raw[j] = Backslash /\ j < Len(raw) /\ raw[j + 1] \in {Semicolon, EqualSign}

Escaped(j) == raw[j] = Backslash /\ j < Len(raw) /\ raw[j + 1] \in Special

(* split_entries, one turn of its loop.                                    *)
ScanChar ==
  /\ pc = "scan" /\ at <= Len(raw)
  /\ \/ /\ Escaped(at)
        /\ current' = Append(current, raw[at + 1]) /\ at' = at + 2
        /\ UNCHANGED entries
     \/ /\ raw[at] = Semicolon
        /\ entries' = Append(entries, current) /\ current' = <<>> /\ at' = at + 1
     \/ /\ ~Escaped(at) /\ raw[at] # Semicolon
        /\ current' = Append(current, raw[at]) /\ at' = at + 1
        /\ UNCHANGED entries
  /\ UNCHANGED <<pc, nargs, flags, wish, raw, opts, run>>

ScanEnd ==
  /\ pc = "scan" /\ at > Len(raw)
  /\ entries' = Append(entries, current)
  /\ pc' = "apply"
  /\ UNCHANGED <<nargs, flags, wish, raw, at, current, opts, run>>

Trim(v) == LET ink == {j \in 1..Len(v) : v[j] # Blank}
           IN IF ink = {} THEN <<>> ELSE SubSeq(v, Min(ink), Max(ink))

(* The first "=" of an entry, 0 if it has none.                            *)
Equals(e) == LET found == {j \in 1..Len(e) : e[j] = EqualSign}
             IN IF found = {} THEN 0 ELSE Min(found)
KeyOf(e) == Trim(SubSeq(e, 1, Equals(e) - 1))
ValueOf(e) == Trim(SubSeq(e, Equals(e) + 1, Len(e)))

(* apply_entry succeeds.                                                   *)
ValueOk(key, v) ==
  /\ key = "s" => Integer(v) \/ v = <<>>
  /\ key = "n" => ValidSni(v)
  /\ key \in {"k", "i"} => ValidKey(v)
  /\ key \in {"g", "t"} => Integer(v)
  /\ key = "t" => v # <<"0">>

Setting(key, v) == IF key = "s" THEN IF v = <<"1">> THEN "server" ELSE "client" ELSE v

(* Unknown keys are ignored, and the last of several settings wins.        *)
Applied(o, key, v) == IF key \in Keys THEN [o EXCEPT ![key] = Setting(key, v)] ELSE o

Apply ==
  /\ pc = "apply" /\ entries # <<>>
  /\ LET e == Head(entries) IN
       \/ /\ Equals(e) = 0   \* blank, or without a value: skipped
          /\ UNCHANGED <<pc, opts>>
       \/ /\ Equals(e) # 0 /\ ValueOk(KeyOf(e)[1], ValueOf(e))
          /\ opts' = Applied(opts, KeyOf(e)[1], ValueOf(e))
          /\ UNCHANGED pc
       \/ /\ Equals(e) # 0 /\ ~ValueOk(KeyOf(e)[1], ValueOf(e))
          /\ pc' = "error"
          /\ UNCHANGED opts
  /\ entries' = Tail(entries)
  /\ UNCHANGED <<nargs, flags, wish, raw, at, current, run>>

(* validate_opts, then the role flag.                                      *)
Validate ==
  /\ pc = "apply" /\ entries = <<>>
  /\ pc' = IF opts.p = <<>> THEN "error" ELSE "env"
  /\ opts' = [opts EXCEPT !.s = Chosen(@)]
  /\ UNCHANGED <<nargs, flags, wish, scanVars, run>>

(* resolve brackets a bare IPv6 address.                                   *)
EnvAddr(a) == a.form \in {"literal", "[v6]", "v6", "name", "empty"}

Sip003 ==
  /\ pc = "env"
  /\ \E lf, rf \in Forms :
       LET local == [at |-> "local", form |-> lf]
           remote == [at |-> "remote", form |-> rf]
       IN IF EnvAddr(local) /\ EnvAddr(remote)
          THEN pc' = "running" /\ Runs(opts.s, opts, local, remote)
          ELSE pc' = "error" /\ UNCHANGED run
  /\ UNCHANGED <<nargs, flags, wish, scanVars, opts>>

Next == \/ FlagArg \/ BadArg \/ HelpArg \/ ArgsEnd \/ Standalone
        \/ ReadOptions \/ ScanChar \/ ScanEnd \/ Apply \/ Validate \/ Sip003

Spec == Init /\ [][Next]_vars

-----------------------------------------------------------------------------
Running == pc = "running"

(* What was asked for a key in plugin_opts: its last setting that has a    *)
(* value, or the default.                                                  *)
Asked(key) ==
  LET said == {j \in 1..Len(wish) : wish[j].key = key /\ ~wish[j].bare}
  IN IF said = {} THEN Defaults[key] ELSE Setting(key, wish[Max(said)].value)

(* A process that runs from plugin_opts has every option as it was meant,  *)
(* whatever separators, escapes and blanks its value needed or has within, *)
(* whatever entries stand before and behind it.                            *)
OptionsAsWritten ==
  Running /\ ~flags.config => \A key \in Keys \ {"s"} : run.opts[key] = Asked(key)

(* The role is the flag's, else the source's, and the options agree with   *)
(* it (the debug_assert of both run functions); and the process listens at *)
(* the address meant for that role, also when the flag turns a config file *)
(* of the other role around: a file's listen is listened on either way.    *)
StartsAsTold ==
  Running =>
    /\ run.opts.s = run.role
    /\ IF flags.config
       THEN /\ run.role = Chosen(IF wish.role = "none" THEN "client" ELSE wish.role)
            /\ run.listen = wish.listen /\ run.peer = wish.remote
       ELSE /\ run.role = Chosen(Asked("s"))
            /\ run.listen.at = IF run.role = "client" THEN "local" ELSE "remote"

(* Whatever the source, nothing runs with an empty password, a timeout of  *)
(* zero (every dial and handshake would fail at once) or a key, SNI or     *)
(* address that would not parse: both sources validate alike.              *)
RunsOnlyValid ==
  Running => /\ run.opts.p # <<>> /\ run.opts.t # <<"0">>
             /\ ValidSni(run.opts.n)
             /\ \A v \in {run.opts.k, run.opts.i} : v = None \/ ValidKey(v)
             /\ EnvAddr(run.listen) /\ EnvAddr(run.peer)
=============================================================================
