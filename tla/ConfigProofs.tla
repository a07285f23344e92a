---------------------------- MODULE ConfigProofs ----------------------------
(***************************************************************************)
(* Proofs about Config, for all settings, files, address forms and numbers *)
(* of arguments. What split_entries makes of a text is not needed for the  *)
(* first part: an option is valid because apply_entry accepted its value.  *)
(* The second part follows the scanner through the text.                   *)
(***************************************************************************)
EXTENDS Config, SeqLemmas

-----------------------------------------------------------------------------
(* Options that may run once they have a password.                         *)
Sound(o) ==
  /\ DOMAIN o = Keys
  /\ ValidSni(o["n"]) /\ o["t"] # <<"0">>
  /\ o["k"] = None \/ ValidKey(o["k"])
  /\ o["i"] = None \/ ValidKey(o["i"])

(* The options are sound at every point of the way through plugin_opts.    *)
OptsInv == pc # "running" => Sound(opts) /\ (pc = "env" => opts["p"] # <<>>)

(* Which way main went.                                                    *)
SourceInv ==
  /\ pc = "file" => flags.config
  /\ pc \in {"text", "scan", "apply", "env"} => ~flags.config

RunInv == pc = "running" => Sound(run.opts) /\ run.opts["p"] # <<>>

AddressInv == pc = "running" => EnvAddr(run.listen) /\ EnvAddr(run.peer)

RoleInv ==
  pc = "running" =>
    /\ run.opts.s = run.role
    /\ flags.config =>
         /\ run.role = Chosen(IF wish.role = "none" THEN "client" ELSE wish.role)
         /\ run.listen = wish.listen /\ run.peer = wish.remote

ConfigInv == OptsInv /\ SourceInv /\ RunInv /\ AddressInv /\ RoleInv

-----------------------------------------------------------------------------
LEMMA KeysFacts == Keys = {"s", "p", "n", "k", "i", "g", "t"}
BY DEF Keys, Defaults

LEMMA DefaultsSound == Sound(Defaults)
<1>1. /\ Defaults["n"] = <<"f">> /\ Defaults["k"] = None /\ Defaults["i"] = None
      /\ Defaults["t"] = <<"10">>
  BY DEF Defaults
<1>2. <<"10">> # <<"0">>
  OBVIOUS
<1>3. QED
  BY <1>1, <1>2 DEF Sound, Keys, ValidSni

(* apply_entry keeps the options sound, whatever the key.                  *)
LEMMA AppliedSound ==
  ASSUME NEW o, Sound(o), NEW key, NEW v, ValueOk(key, v)
  PROVE  Sound(Applied(o, key, v))
<1>1. CASE key \in Keys
  <2>1. PICK z : z = [o EXCEPT ![key] = Setting(key, v)]
    OBVIOUS
  <2>2. DOMAIN z = Keys /\ z[key] = Setting(key, v) /\ \A k \in Keys : k # key => z[k] = o[k]
    BY <1>1, <2>1 DEF Sound
  <2>3. key # "s" => z[key] = v
    BY <2>2 DEF Setting
  <2>4. Sound(z)
    BY <2>2, <2>3, KeysFacts DEF Sound, ValueOk
  <2>5. QED
    BY <1>1, <2>1, <2>4 DEF Applied
<1>2. CASE key \notin Keys
  BY <1>2 DEF Applied
<1>3. QED
  BY <1>1, <1>2

(* A file that is accepted gives sound options, with a password.           *)
LEMMA FileSound ==
  ASSUME NEW f, FileOk(f)
  PROVE  Sound(FileOpts(f)) /\ FileOpts(f)["p"] # <<>>
<1>1. /\ \A k \in Keys \ {"s"} : FileOpts(f)[k] = IF Given(f, k) THEN f.opts[k] ELSE Defaults[k]
      /\ DOMAIN FileOpts(f) = Keys
  BY DEF FileOpts
<1>2. /\ Given(f, "n") => ValidSni(f.opts["n"])
      /\ \A key \in {"k", "i"} : Given(f, key) => ValidKey(f.opts[key])
      /\ Given(f, "p") /\ f.opts["p"] # <<>>
      /\ Given(f, "t") => f.opts["t"] # <<"0">>
  BY DEF FileOk, FileParses
<1>3. QED
  BY <1>1, <1>2, DefaultsSound, KeysFacts DEF Sound

-----------------------------------------------------------------------------
LEMMA ConfigInit == Init => ConfigInv
BY DefaultsSound DEF Init, ConfigInv, OptsInv, SourceInv, RunInv, AddressInv, RoleInv

(* Steps that go on in main without touching the options.                  *)
LEMMA ConfigGoesOn ==
  ASSUME ConfigInv, pc # "running", pc' \notin {"running", "env"}, opts' = opts,
         pc' = "file" => flags'.config,
         pc' \in {"text", "scan", "apply"} => ~flags'.config
  PROVE  ConfigInv'
BY DEF ConfigInv, OptsInv, SourceInv, RunInv, AddressInv, RoleInv

LEMMA ArgSteps ==
  ASSUME ConfigInv, FlagArg \/ BadArg \/ HelpArg \/ ArgsEnd
  PROVE  ConfigInv'
<1>1. CASE FlagArg
  <2>1. pc = "args" /\ pc' = "args" /\ opts' = opts
    BY <1>1 DEF FlagArg, Arg
  <2>2. QED
    BY <2>1, ConfigGoesOn
<1>2. CASE BadArg
  BY <1>2, ConfigGoesOn DEF BadArg, Goto
<1>3. CASE HelpArg
  BY <1>3, ConfigGoesOn DEF HelpArg, Goto
<1>4. CASE ArgsEnd
  BY <1>4, ConfigGoesOn DEF ArgsEnd, Goto
<1>5. QED
  BY <1>1, <1>2, <1>3, <1>4

LEMMA TextSteps ==
  ASSUME ConfigInv, ReadOptions \/ ScanChar \/ ScanEnd
  PROVE  ConfigInv'
<1>1. /\ pc \in {"text", "scan"} /\ pc' \in {"scan", "apply"}
      /\ opts' = opts /\ flags' = flags
  BY DEF ReadOptions, ScanChar, ScanEnd
<1>2. QED
  BY <1>1, ConfigGoesOn DEF ConfigInv, SourceInv

(* The pair of addresses of a file, and the role the flag gives it.        *)
LEMMA StandaloneStep ==
  ASSUME ConfigInv, Standalone
  PROVE  ConfigInv'
<1>1. PICK f \in Files :
        /\ pc = "file" /\ wish' = f /\ flags' = flags
        /\ IF FileOk(f) THEN pc' = "running" /\ Starts(f)
                        ELSE pc' = "error" /\ UNCHANGED <<opts, run>>
  BY DEF Standalone
<1>2. CASE ~FileOk(f)
  BY <1>1, <1>2, ConfigGoesOn
<1>3. CASE FileOk(f)
  <2>1. PICK role : role = Chosen(FileOpts(f).s)
    OBVIOUS
  <2>2. /\ pc' = "running" /\ opts' = [FileOpts(f) EXCEPT !.s = role]
        /\ run' = [role |-> role, opts |-> opts',
                   listen |-> IF role = "client" THEN Pair(role, f)[1] ELSE Pair(role, f)[2],
                   peer |-> IF role = "client" THEN Pair(role, f)[2] ELSE Pair(role, f)[1]]
    BY <1>1, <1>3, <2>1 DEF Starts, Runs
  <2>3. Sound(FileOpts(f)) /\ FileOpts(f)["p"] # <<>>
    BY <1>3, FileSound
  <2>4. Sound(opts') /\ opts'["p"] # <<>> /\ opts'.s = role
    BY <2>2, <2>3, KeysFacts DEF Sound
  <2>5. run'.listen = f.listen /\ run'.peer = f.remote /\ run'.role = role /\ run'.opts = opts'
    BY <2>2 DEF Pair
  <2>6. EnvAddr(f.listen) /\ EnvAddr(f.remote)
    BY <1>3 DEF FileOk, FileParses, ConfigAddr, EnvAddr
  <2>7. FileOpts(f).s = IF f.role = "none" THEN "client" ELSE f.role
    BY KeysFacts DEF FileOpts
  <2>8. role = Chosen(IF f.role = "none" THEN "client" ELSE f.role)'
    BY <1>1, <2>1, <2>7 DEF Chosen
  <2>9. OptsInv' /\ SourceInv' /\ RunInv' /\ AddressInv'
    BY <2>2, <2>4, <2>5, <2>6 DEF OptsInv, SourceInv, RunInv, AddressInv
  <2>10. RoleInv'
    BY <1>1, <2>2, <2>4, <2>5, <2>8 DEF RoleInv, Chosen
  <2>11. QED
    BY <2>9, <2>10 DEF ConfigInv
<1>4. QED
  BY <1>2, <1>3

LEMMA ApplyStep ==
  ASSUME ConfigInv, Apply
  PROVE  ConfigInv'
<1>1. PICK e :
        /\ pc = "apply" /\ flags' = flags
        /\ \/ UNCHANGED <<pc, opts>>
           \/ /\ ValueOk(KeyOf(e)[1], ValueOf(e))
              /\ opts' = Applied(opts, KeyOf(e)[1], ValueOf(e)) /\ UNCHANGED pc
           \/ pc' = "error" /\ UNCHANGED opts
  BY DEF Apply
<1>2. Sound(opts) /\ ~flags.config
  BY <1>1 DEF ConfigInv, OptsInv, SourceInv
<1>3. Sound(opts') /\ pc' \in {"apply", "error"}
  BY <1>1, <1>2, AppliedSound
<1>4. QED
  BY <1>1, <1>2, <1>3 DEF ConfigInv, OptsInv, SourceInv, RunInv, AddressInv, RoleInv

LEMMA ValidateStep ==
  ASSUME ConfigInv, Validate
  PROVE  ConfigInv'
<1>1. /\ pc = "apply" /\ flags' = flags /\ pc' = IF opts["p"] = <<>> THEN "error" ELSE "env"
      /\ opts' = [opts EXCEPT !.s = Chosen(opts.s)]
  BY DEF Validate
<1>2. Sound(opts) /\ ~flags.config
  BY <1>1 DEF ConfigInv, OptsInv, SourceInv
<1>3. Sound(opts') /\ opts'["p"] = opts["p"]
  BY <1>1, <1>2, KeysFacts DEF Sound
<1>4. QED
  BY <1>1, <1>2, <1>3 DEF ConfigInv, OptsInv, SourceInv, RunInv, AddressInv, RoleInv

LEMMA Sip003Step ==
  ASSUME ConfigInv, Sip003
  PROVE  ConfigInv'
<1>1. /\ pc = "env" /\ flags' = flags /\ opts' = opts
      /\ \E local, remote :
           IF EnvAddr(local) /\ EnvAddr(remote)
           THEN pc' = "running" /\ Runs(opts.s, opts, local, remote)
           ELSE pc' = "error"
  BY DEF Sip003
<1>2. PICK local, remote :
           IF EnvAddr(local) /\ EnvAddr(remote)
           THEN pc' = "running" /\ Runs(opts.s, opts, local, remote)
           ELSE pc' = "error"
  BY <1>1
<1>3. Sound(opts) /\ opts["p"] # <<>> /\ ~flags.config
  BY <1>1 DEF ConfigInv, OptsInv, SourceInv
<1>4. CASE EnvAddr(local) /\ EnvAddr(remote)
  <2>1. /\ run'.role = opts.s /\ run'.opts = opts /\ run'.listen \in {local, remote}
        /\ run'.peer \in {local, remote} /\ pc' = "running"
    BY <1>2, <1>4 DEF Runs
  <2>2. EnvAddr(run'.listen) /\ EnvAddr(run'.peer)
    BY <1>4, <2>1
  <2>3. QED
    BY <1>1, <1>3, <2>1, <2>2 DEF ConfigInv, OptsInv, SourceInv, RunInv, AddressInv, RoleInv
<1>5. CASE ~(EnvAddr(local) /\ EnvAddr(remote))
  BY <1>1, <1>2, <1>5, ConfigGoesOn
<1>6. QED
  BY <1>4, <1>5

LEMMA ConfigStep == ConfigInv /\ [Next]_vars => ConfigInv'
<1> SUFFICES ASSUME ConfigInv, [Next]_vars PROVE ConfigInv'
  OBVIOUS
<1>1. CASE UNCHANGED vars
  BY <1>1 DEF vars, ConfigInv, OptsInv, SourceInv, RunInv, AddressInv, RoleInv, Chosen
<1>2. CASE Next
  BY <1>2, ArgSteps, TextSteps, StandaloneStep, ApplyStep, ValidateStep, Sip003Step DEF Next
<1>3. QED
  BY <1>1, <1>2

LEMMA ConfigAlways == Spec => []ConfigInv
BY ConfigInit, ConfigStep, PTL DEF Spec

(* Whatever the settings, their order and their text, and whatever the     *)
(* file: nothing runs with an empty password, a timeout of zero, or a key, *)
(* SNI or address that would not parse.                                    *)
THEOREM ConfigRunsOnlyValid == Spec => []RunsOnlyValid
<1>1. ConfigInv => RunsOnlyValid
  BY DEF ConfigInv, RunInv, AddressInv, Sound, RunsOnlyValid, Running
<1>2. QED
  BY <1>1, ConfigAlways, PTL

-----------------------------------------------------------------------------
(* Concatenations of parts. After(parts, i) is what follows the first i.   *)
After(parts, i) == Ends(parts)[Len(parts) - i]

Texts == Seq(Alphabet)

LEMMA Assoc ==
  \A a, b, c \in Texts : (a \o b) \o c = a \o (b \o c)
BY ConcatAssociative DEF Texts

LEMMA EndsFacts ==
  ASSUME NEW parts \in Seq(Texts), NEW n \in Nat, n = Len(parts)
  PROVE  /\ Ends(parts) \in [0..n -> Texts] /\ Ends(parts)[0] = <<>>
         /\ \A k \in 1..n : Ends(parts)[k] = parts[n - k + 1] \o Ends(parts)[k - 1]
<1> DEFINE Is(f) == f = [k \in 0..Len(parts) |->
                          IF k = 0 THEN <<>> ELSE parts[Len(parts) - k + 1] \o f[k - 1]]
           step == [k \in 1..n |-> [x \in Texts |-> parts[n - k + 1] \o x]]
<1>0. <<>> \in Texts
  BY DEF Texts
<1>1. step \in [1..n -> [Texts -> Texts]]
  <2>1. ASSUME NEW k \in 1..n, NEW x \in Texts PROVE parts[n - k + 1] \o x \in Texts
    <3>1. n - k + 1 \in 1..n
      OBVIOUS
    <3>2. parts[n - k + 1] \in Texts
      BY <3>1
    <3>3. QED
      BY <3>2, ConcatProperties DEF Texts
  <2>2. QED
    BY <2>1
<1>2. \A k \in 1..n, x \in Texts : step[k][x] = parts[n - k + 1] \o x
  OBVIOUS
<1> HIDE DEF step
<1>3. PICK g \in [0..n -> Texts] : g[0] = <<>> /\ \A k \in 1..n : g[k] = step[k][g[k - 1]]
  <2>1. \E g : Follows(g, Texts, n, <<>>, step)
    BY <1>0, <1>1, FcnExists
  <2>2. QED
    BY <2>1, Zenon DEF Follows
<1>4. ASSUME NEW k \in 1..n PROVE g[k] = parts[n - k + 1] \o g[k - 1]
  <2>1. k - 1 \in 0..n
    OBVIOUS
  <2>2. g[k - 1] \in Texts
    BY <1>3, <2>1
  <2>3. QED
    BY <1>2, <1>3, <2>2
<1>5. Is(g)
  BY <1>3, <1>4
<1>6. Is(CHOOSE f : Is(f))
  BY <1>5
<1>7. Is(Ends(parts))
  BY <1>6 DEF Ends
<1>8. PICK f : f = Ends(parts) /\ Is(f)
  BY <1>7
<1>9. DOMAIN f = 0..n /\ f[0] = <<>> /\ \A k \in 1..n : f[k] = parts[n - k + 1] \o f[k - 1]
  <2>1. PICK h : h = [k \in 0..n |-> IF k = 0 THEN <<>> ELSE parts[n - k + 1] \o f[k - 1]] /\ f = h
    BY <1>8
  <2>2. DOMAIN h = 0..n /\ h[0] = <<>>
    BY <2>1
  <2>3. ASSUME NEW k \in 1..n PROVE h[k] = parts[n - k + 1] \o f[k - 1]
    <3>1. k \in 0..n /\ k # 0
      OBVIOUS
    <3>2. QED
      BY <2>1, <3>1, Zenon
  <2>4. QED
    BY <2>1, <2>2, <2>3, Zenon
<1>10. \A k \in 0..n : f[k] = g[k]
  <2>1. Alike(f, g, n)
    BY <1>3, <1>4, <1>9 DEF Alike
  <2>2. QED
    BY <2>1, FcnUnique
<1>11. f \in [0..n -> Texts]
  BY <1>8, <1>10
<1>12. QED
  BY <1>8, <1>9, <1>11

Behind(parts, n) ==
  /\ After(parts, n) = <<>> /\ After(parts, 0) = Concat(parts)
  /\ \A i \in 0..n : After(parts, i) \in Texts
  /\ \A i \in 1..n : After(parts, i - 1) = parts[i] \o After(parts, i)

LEMMA AfterFacts ==
  ASSUME NEW parts \in Seq(Texts), NEW n \in Nat, n = Len(parts)
  PROVE  Behind(parts, n)
<1>1. PICK f : f = Ends(parts)
  OBVIOUS
<1>2. /\ f \in [0..n -> Texts] /\ f[0] = <<>>
      /\ \A k \in 1..n : f[k] = parts[n - k + 1] \o f[k - 1]
  BY <1>1, EndsFacts
<1>3. \A i : After(parts, i) = f[n - i]
  BY <1>1 DEF After
<1>4. After(parts, n) = <<>> /\ After(parts, 0) = Concat(parts)
  <2>1. n - n = 0 /\ n - 0 = n
    OBVIOUS
  <2>2. QED
    BY <1>1, <1>2, <1>3, <2>1 DEF Concat
<1>5. ASSUME NEW i \in 0..n PROVE After(parts, i) \in Texts
  <2>1. n - i \in 0..n
    OBVIOUS
  <2>2. QED
    BY <1>2, <1>3, <2>1
<1>6. ASSUME NEW i \in 1..n PROVE After(parts, i - 1) = parts[i] \o After(parts, i)
  <2>1. PICK k \in 1..n : k = n - (i - 1) /\ n - k + 1 = i /\ k - 1 = n - i
    <3>1. n - (i - 1) \in 1..n /\ n - (n - (i - 1)) + 1 = i /\ (n - (i - 1)) - 1 = n - i
      OBVIOUS
    <3>2. QED
      BY <3>1
  <2>2. f[k] = parts[i] \o f[n - i]
    BY <1>2, <2>1
  <2>3. QED
    BY <1>3, <2>1, <2>2
<1>7. QED
  BY <1>4, <1>5, <1>6 DEF Behind

-----------------------------------------------------------------------------
(* What a user writes for one setting, and what becomes of it.             *)
LEMMA CharFacts ==
  /\ Blank \in Alphabet /\ Semicolon \in Alphabet /\ EqualSign \in Alphabet /\ Backslash \in Alphabet
  /\ Blank # EqualSign /\ Blank # Semicolon /\ Blank # Backslash
  /\ EqualSign # Semicolon /\ EqualSign # Backslash /\ Semicolon # Backslash
<1>1. /\ Blank \in Alphabet /\ Semicolon \in Alphabet /\ EqualSign \in Alphabet
      /\ Backslash \in Alphabet
  BY ConfigAssumption DEF Special
<1>2. /\ Blank # EqualSign /\ Blank # Semicolon /\ Blank # Backslash
      /\ EqualSign # Semicolon /\ EqualSign # Backslash /\ Semicolon # Backslash
  BY Zenon DEF Blank, Semicolon, EqualSign, Backslash
<1>3. QED
  BY <1>1, <1>2

Settings == [key : Alphabet, bare : BOOLEAN, value : Texts]

Inked(v) == v # <<>> => v[1] # Blank /\ v[Len(v)] # Blank

Sensible(w) == w \in Settings /\ w.key \notin Special \cup {Blank} /\ Inked(w.value)

LEMMA WishFacts ==
  ASSUME NEW ws \in Wishes
  PROVE  ws \in Seq(Settings) /\ Len(ws) \in Nat /\ \A j \in 1..Len(ws) : Sensible(ws[j])
<1>1. ws \in Seq(Settings)
  BY ConfigAssumption DEF Settings, Texts
<1>2. ASSUME NEW j \in 1..Len(ws) PROVE Sensible(ws[j])
  <2>1. ws[j] \in Settings
    BY <1>1
  <2>2. ws[j].key \notin Special \cup {Blank} /\ Inked(ws[j].value)
    BY ConfigAssumption DEF Inked
  <2>3. QED
    BY <2>1, <2>2 DEF Sensible
<1>3. QED
  BY <1>1, <1>2

LEMMA MinIs ==
  ASSUME NEW T, T \subseteq Nat, NEW x \in T, \A y \in T : x <= y
  PROVE  Min(T) = x
<1>1. \E z \in T : \A y \in T : z <= y
  OBVIOUS
<1>2. Min(T) \in T /\ \A y \in T : Min(T) <= y
  BY <1>1 DEF Min
<1>3. Min(T) <= x /\ x <= Min(T) /\ x \in Nat /\ Min(T) \in Nat
  BY <1>2
<1>4. QED
  BY <1>3

LEMMA MaxIs ==
  ASSUME NEW T, T \subseteq Nat, NEW x \in T, \A y \in T : y <= x
  PROVE  Max(T) = x
<1>1. \E z \in T : \A y \in T : z >= y
  OBVIOUS
<1>2. Max(T) \in T /\ \A y \in T : Max(T) >= y
  BY <1>1 DEF Max
<1>3. Max(T) >= x /\ Max(T) <= x /\ x \in Nat /\ Max(T) \in Nat
  BY <1>2
<1>4. QED
  BY <1>3

LEMMA PadFacts ==
  ASSUME NEW pad \in Pads
  PROVE  pad \in Texts /\ Len(pad) \in Nat /\ \A x \in 1..Len(pad) : pad[x] = Blank
<1>1. pad \in Seq({Blank})
  BY ConfigAssumption
<1>2. PICK n \in Nat : n = Len(pad) /\ pad \in [1..n -> {Blank}]
  BY <1>1
<1>3. \A x \in 1..n : pad[x] = Blank
  BY <1>2
<1>4. pad \in [1..n -> Alphabet]
  BY <1>2, <1>3, CharFacts
<1>5. pad \in Texts
  BY <1>4 DEF Texts
<1>6. QED
  BY <1>2, <1>3, <1>5

(* A text of length m between blanks of length i.                          *)
Around(s, text, i, m) ==
  /\ s \in Texts /\ Len(s) = i + m + i
  /\ \A x \in 1..i : s[x] = Blank
  /\ \A x \in 1..m : s[i + x] = text[x]
  /\ \A x \in 1..i : s[i + m + x] = Blank

LEMMA PaddedFacts ==
  ASSUME NEW text \in Texts, NEW pad \in Pads, NEW i \in Nat, NEW m \in Nat,
         i = Len(pad), m = Len(text)
  PROVE  Around(Padded(text, pad), text, i, m)
<1>1. pad \in Seq(Alphabet) /\ text \in Seq(Alphabet) /\ \A x \in 1..i : pad[x] = Blank
  BY PadFacts DEF Texts
<1>2. Joined(pad \o text, Alphabet, pad, text, i, m)
  BY <1>1, Two
<1>3. PICK u \in Seq(Alphabet), k \in Nat : u = pad \o text /\ k = i + m /\ k = Len(u)
  <2>1. pad \o text \in Seq(Alphabet) /\ Len(pad \o text) = i + m /\ i + m \in Nat
    BY <1>2 DEF Joined
  <2>2. QED
    BY <2>1
<1>4. Joined(u \o pad, Alphabet, u, pad, k, i)
  BY <1>1, <1>3, Two
<1>5. PICK s : s = u \o pad
  OBVIOUS
<1>6. s = Padded(text, pad)
  BY <1>3, <1>5 DEF Padded
<1>7. s \in Texts /\ Len(s) = i + m + i
  BY <1>3, <1>4, <1>5 DEF Joined, Texts
<1>8. ASSUME NEW x \in 1..i PROVE s[x] = Blank
  <2>1. x \in 1..k
    BY <1>3
  <2>2. s[x] = u[x] /\ u[x] = pad[x]
    BY <1>2, <1>3, <1>4, <1>5, <2>1, Zenon DEF Joined
  <2>3. QED
    BY <1>1, <2>2
<1>9. ASSUME NEW x \in 1..m PROVE s[i + x] = text[x]
  <2>1. i + x \in 1..k
    BY <1>3
  <2>2. s[i + x] = u[i + x] /\ u[i + x] = text[x]
    BY <1>2, <1>3, <1>4, <1>5, <2>1, Zenon DEF Joined
  <2>3. QED
    BY <2>2
<1>10. ASSUME NEW x \in 1..i PROVE s[i + m + x] = Blank
  <2>1. s[k + x] = pad[x]
    BY <1>4, <1>5, Zenon DEF Joined
  <2>2. QED
    BY <1>1, <1>3, <2>1
<1>11. QED
  BY <1>6, <1>7, <1>8, <1>9, <1>10 DEF Around

(* Trimming gives back a text that has no blanks at its ends.              *)
LEMMA TrimPadded ==
  ASSUME NEW text \in Texts, NEW pad \in Pads, Inked(text)
  PROVE  Trim(Padded(text, pad)) = text
<1>1. PICK i \in Nat, m \in Nat : i = Len(pad) /\ m = Len(text)
  BY PadFacts DEF Texts
<1>2. PICK s : s = Padded(text, pad) /\ Around(s, text, i, m)
  BY <1>1, PaddedFacts
<1>3. PICK n \in Nat : n = Len(s) /\ n = i + m + i
  BY <1>2 DEF Around
<1> DEFINE ink == {j \in 1..n : s[j] # Blank}
<1>4. ASSUME NEW j \in ink PROVE j - i \in 1..m
  <2>0. j \in 1..n /\ s[j] # Blank
    OBVIOUS
  <2>1. ~(j <= i)
    <3>1. SUFFICES ASSUME j <= i PROVE FALSE
      OBVIOUS
    <3>2. j \in 1..i
      BY <2>0, <3>1
    <3>3. QED
      BY <1>2, <2>0, <3>2 DEF Around
  <2>2. ~(j > i + m)
    <3>1. SUFFICES ASSUME j > i + m PROVE FALSE
      OBVIOUS
    <3>2. PICK x \in 1..i : j = i + m + x
      <4>1. j - (i + m) \in 1..i /\ j = i + m + (j - (i + m))
        BY <1>3, <2>0, <3>1
      <4>2. QED
        BY <4>1
    <3>3. s[i + m + x] = Blank
      BY <1>2 DEF Around
    <3>4. QED
      BY <2>0, <3>2, <3>3
  <2>3. QED
    BY <2>0, <2>1, <2>2
<1>5. Trim(s) = IF ink = {} THEN <<>> ELSE SubSeq(s, Min(ink), Max(ink))
  BY <1>3 DEF Trim
<1>6. CASE m = 0
  <2>1. ink = {}
    BY <1>4, <1>6
  <2>2. text = <<>>
    BY <1>1, <1>6, EmptySeq DEF Texts
  <2>3. QED
    BY <1>2, <1>5, <2>1, <2>2
<1>7. CASE m # 0
  <2>1. 1 \in 1..m /\ m \in 1..m
    BY <1>7
  <2>2. text # <<>> /\ text[1] # Blank /\ text[m] # Blank
    BY <1>1, <1>7 DEF Inked
  <2>3. s[i + 1] = text[1] /\ s[i + m] = text[m]
    BY <1>2, <2>1 DEF Around
  <2>4. i + 1 \in 1..n /\ i + m \in 1..n
    BY <1>3, <1>7
  <2>5. i + 1 \in ink /\ i + m \in ink
    BY <2>2, <2>3, <2>4
  <2>6. ink \subseteq Nat
    OBVIOUS
  <2>7. \A j \in ink : i + 1 <= j /\ j <= i + m
    <3>1. ASSUME NEW j \in ink PROVE i + 1 <= j /\ j <= i + m
      <4>1. j - i \in 1..m /\ j \in Nat
        BY <1>4
      <4>2. QED
        BY <4>1
    <3>2. QED
      BY <3>1
  <2>8. Min(ink) = i + 1
    <3> HIDE DEF ink
    <3>1. QED
      BY <2>5, <2>6, <2>7, MinIs
  <2>9. Max(ink) = i + m
    <3> HIDE DEF ink
    <3>1. QED
      BY <2>5, <2>6, <2>7, MaxIs
  <2>10. SubSeq(s, i + 1, i + m) = text
    <3>1. /\ s \in Seq(Alphabet) /\ text \in Seq(Alphabet) /\ m = Len(text) /\ i + m <= Len(s)
          /\ \A x \in 1..m : s[i + x] = text[x]
      BY <1>1, <1>2, <1>3 DEF Around, Texts
    <3>2. QED
      BY <3>1, Slice
  <2>11. ink # {}
    BY <2>5
  <2> HIDE DEF ink
  <2>12. QED
    BY <1>2, <1>5, <2>8, <2>9, <2>10, <2>11
<1>8. QED
  BY <1>6, <1>7

(* An entry with a value: the key and its blanks, of length l, the "=" and *)
(* the value with its blanks, of length m.                                 *)
Entry(p, q, v, l, m) ==
  /\ p \in Texts /\ Len(p) = l + 1 + m
  /\ \A x \in 1..l : p[x] = q[x]
  /\ p[l + 1] = EqualSign
  /\ \A x \in 1..m : p[l + 1 + x] = v[x]

LEMMA KeyFacts ==
  ASSUME NEW w, Sensible(w), NEW pad \in Pads
  PROVE  LET q == Padded(<<w.key>>, pad)
         IN q \in Texts /\ Len(q) \in Nat /\ \A x \in 1..Len(q) : q[x] # EqualSign
<1>1. w.key \in Alphabet /\ w.key # EqualSign
  BY DEF Sensible, Settings, Special
<1>2. <<w.key>> \in Texts /\ Len(<<w.key>>) = 1
  BY <1>1 DEF Texts
<1>3. PICK i \in Nat : i = Len(pad)
  BY PadFacts
<1>4. PICK q : q = Padded(<<w.key>>, pad) /\ Around(q, <<w.key>>, i, 1)
  BY <1>2, <1>3, PaddedFacts
<1>5. q \in Texts /\ Len(q) = i + 1 + i
  BY <1>4 DEF Around
<1>6. ASSUME NEW x \in 1..(i + 1 + i) PROVE q[x] # EqualSign
  <2>1. CASE x <= i
    <3>1. x \in 1..i
      BY <2>1
    <3>2. QED
      BY <1>4, <3>1, CharFacts DEF Around
  <2>2. CASE x = i + 1
    <3>1. q[i + 1] = <<w.key>>[1]
      BY <1>4 DEF Around
    <3>2. QED
      BY <1>1, <2>2, <3>1
  <2>3. CASE x > i + 1
    <3>1. PICK y \in 1..i : x = i + 1 + y
      <4>1. x - (i + 1) \in 1..i /\ x = i + 1 + (x - (i + 1))
        BY <2>3
      <4>2. QED
        BY <4>1
    <3>2. q[i + 1 + y] = Blank
      BY <1>4 DEF Around
    <3>3. QED
      BY <3>1, <3>2, CharFacts
  <2>4. QED
    BY <2>1, <2>2, <2>3
<1>7. QED
  BY <1>4, <1>5, <1>6

LEMMA PlainFacts ==
  ASSUME NEW w, Sensible(w), ~w.bare, NEW pad \in Pads, NEW l \in Nat, NEW m \in Nat,
         l = Len(Padded(<<w.key>>, pad)), m = Len(Padded(w.value, pad))
  PROVE  Entry(Plain(w, pad), Padded(<<w.key>>, pad), Padded(w.value, pad), l, m)
<1>1. PICK q : q = Padded(<<w.key>>, pad) /\ q \in Seq(Alphabet) /\ l = Len(q)
  BY KeyFacts DEF Texts
<1>2. w.value \in Texts
  BY DEF Sensible, Settings
<1>3. PICK v : v = Padded(w.value, pad) /\ v \in Seq(Alphabet) /\ m = Len(v)
  <2>1. PICK i \in Nat, k \in Nat : i = Len(pad) /\ k = Len(w.value)
    BY <1>2, PadFacts DEF Texts
  <2>2. Around(Padded(w.value, pad), w.value, i, k)
    BY <1>2, <2>1, PaddedFacts
  <2>3. QED
    BY <2>2 DEF Around, Texts
<1>4. <<EqualSign>> \in Seq(Alphabet) /\ Len(<<EqualSign>>) = 1 /\ <<EqualSign>>[1] = EqualSign
  BY CharFacts
<1>5. PICK e : e = <<EqualSign>>
  OBVIOUS
<1>6. Joined(e \o v, Alphabet, e, v, 1, m)
  BY <1>3, <1>4, <1>5, Two
<1>7. PICK t \in Seq(Alphabet), n \in Nat : t = e \o v /\ n = 1 + m /\ n = Len(t)
  <2>1. e \o v \in Seq(Alphabet) /\ Len(e \o v) = 1 + m /\ 1 + m \in Nat
    BY <1>6 DEF Joined
  <2>2. QED
    BY <2>1
<1>8. Joined(q \o t, Alphabet, q, t, l, n)
  BY <1>1, <1>7, Two
<1>9. PICK p : p = q \o t
  OBVIOUS
<1>10. p = Plain(w, pad)
  BY <1>1, <1>3, <1>5, <1>7, <1>9 DEF Plain
<1>11. p \in Texts /\ Len(p) = l + 1 + m
  BY <1>7, <1>8, <1>9 DEF Joined, Texts
<1>12. \A x \in 1..l : p[x] = q[x]
  BY <1>8, <1>9, Zenon DEF Joined
<1>13. ASSUME NEW x \in 1..n PROVE p[l + x] = t[x]
  BY <1>8, <1>9, Zenon DEF Joined
<1>14. p[l + 1] = EqualSign
  <2>1. 1 \in 1..n /\ 1 \in 1..1
    BY <1>7
  <2>2. t[1] = e[1]
    BY <1>6, <1>7, <2>1, Zenon DEF Joined
  <2>3. QED
    BY <1>4, <1>5, <1>13, <2>1, <2>2
<1>15. ASSUME NEW x \in 1..m PROVE p[l + 1 + x] = v[x]
  <2>1. 1 + x \in 1..n /\ l + (1 + x) = l + 1 + x
    BY <1>7
  <2>2. t[1 + x] = v[x]
    BY <1>6, <1>7, Zenon DEF Joined
  <2>3. p[l + (1 + x)] = t[1 + x]
    BY <1>13, <2>1
  <2>4. QED
    BY <2>1, <2>2, <2>3
<1>16. QED
  BY <1>1, <1>3, <1>10, <1>11, <1>12, <1>14, <1>15 DEF Entry

(* Without a "=" the entry is skipped, else its first one splits it into   *)
(* the key and the value that were meant.                                  *)
LEMMA BareRead ==
  ASSUME NEW w, Sensible(w), w.bare, NEW pad \in Pads
  PROVE  Plain(w, pad) \in Texts /\ Equals(Plain(w, pad)) = 0
<1>1. PICK q : q = Padded(<<w.key>>, pad) /\ q \in Texts /\ \A x \in 1..Len(q) : q[x] # EqualSign
  BY KeyFacts
<1>2. Plain(w, pad) = q
  <2>1. Plain(w, pad) = q \o <<>>
    BY <1>1 DEF Plain
  <2>2. q \o <<>> = q
    BY <1>1, ConcatEmptySeq DEF Texts
  <2>3. QED
    BY <2>1, <2>2
<1>3. Equals(q) = 0
  <2>1. {j \in 1..Len(q) : q[j] = EqualSign} = {}
    BY <1>1
  <2>2. QED
    BY <2>1 DEF Equals
<1>4. QED
  BY <1>1, <1>2, <1>3

LEMMA ValueRead ==
  ASSUME NEW w, Sensible(w), ~w.bare, NEW pad \in Pads
  PROVE  LET p == Plain(w, pad)
         IN p \in Texts /\ Equals(p) # 0 /\ KeyOf(p)[1] = w.key /\ ValueOf(p) = w.value
<1>0. w.key \in Alphabet /\ w.value \in Texts /\ Inked(w.value) /\ w.key # Blank
  BY DEF Sensible, Settings
<1>1. PICK q \in Texts, l \in Nat :
        /\ q = Padded(<<w.key>>, pad) /\ l = Len(q)
        /\ \A x \in 1..l : q[x] # EqualSign
  BY KeyFacts
<1>2. PICK v \in Texts, m \in Nat : v = Padded(w.value, pad) /\ m = Len(v)
  <2>1. PICK i \in Nat, k \in Nat : i = Len(pad) /\ k = Len(w.value)
    BY <1>0, PadFacts DEF Texts
  <2>2. Around(Padded(w.value, pad), w.value, i, k)
    BY <1>0, <2>1, PaddedFacts
  <2>3. QED
    BY <2>1, <2>2 DEF Around
<1>3. PICK p : p = Plain(w, pad) /\ Entry(p, q, v, l, m)
  BY <1>1, <1>2, PlainFacts
<1>4. PICK n \in Nat : n = Len(p) /\ n = l + 1 + m
  BY <1>3 DEF Entry
<1>5. Equals(p) = l + 1
  <2> DEFINE found == {j \in 1..n : p[j] = EqualSign}
  <2>1. l + 1 \in found
    BY <1>3, <1>4 DEF Entry
  <2>2. ASSUME NEW j \in found PROVE l + 1 <= j
    <3>1. SUFFICES ASSUME j <= l PROVE FALSE
      OBVIOUS
    <3>2. j \in 1..l
      BY <3>1
    <3>3. p[j] = q[j]
      BY <1>3, <3>2 DEF Entry
    <3>4. QED
      BY <1>1, <3>2, <3>3
  <2>3. found \subseteq Nat
    OBVIOUS
  <2>4. Equals(p) = IF found = {} THEN 0 ELSE Min(found)
    BY <1>4 DEF Equals
  <2> HIDE DEF found
  <2>5. Min(found) = l + 1
    BY <2>1, <2>2, <2>3, MinIs
  <2>6. QED
    BY <2>1, <2>4, <2>5
<1>6. KeyOf(p) = <<w.key>>
  <2>1. SubSeq(p, 0 + 1, 0 + l) = q
    <3>1. /\ p \in Seq(Alphabet) /\ q \in Seq(Alphabet) /\ l = Len(q) /\ 0 + l <= Len(p)
      BY <1>1, <1>3, <1>4 DEF Entry, Texts
    <3>2. \A x \in 1..l : p[0 + x] = q[x]
      BY <1>3 DEF Entry
    <3>3. QED
      BY <3>1, <3>2, Slice
  <2>2. 0 + 1 = 1 /\ 0 + l = l /\ Equals(p) - 1 = l
    BY <1>5
  <2>3. KeyOf(p) = Trim(q)
    BY <2>1, <2>2 DEF KeyOf
  <2>4. <<w.key>> \in Texts /\ Inked(<<w.key>>)
    BY <1>0 DEF Texts, Inked
  <2>5. Trim(q) = <<w.key>>
    BY <1>1, <2>4, TrimPadded
  <2>6. QED
    BY <2>3, <2>5
<1>7. ValueOf(p) = w.value
  <2>1. PICK i \in Nat : i = l + 1
    OBVIOUS
  <2>2. SubSeq(p, i + 1, i + m) = v
    <3>1. /\ p \in Seq(Alphabet) /\ v \in Seq(Alphabet) /\ m = Len(v) /\ i + m <= Len(p)
      BY <1>2, <1>3, <1>4, <2>1 DEF Entry, Texts
    <3>2. \A x \in 1..m : p[i + x] = v[x]
      BY <1>3, <2>1 DEF Entry
    <3>3. QED
      BY <3>1, <3>2, Slice
  <2>3. Equals(p) = i /\ Len(p) = i + m
    BY <1>4, <1>5, <2>1
  <2>4. ValueOf(p) = Trim(v)
    BY <2>2, <2>3 DEF ValueOf
  <2>5. QED
    BY <1>0, <1>2, <2>4, TrimPadded
<1>8. Equals(p) # 0 /\ <<w.key>>[1] = w.key
  BY <1>5
<1>9. p \in Texts
  BY <1>3 DEF Entry
<1>10. QED
  BY <1>3, <1>6, <1>7, <1>8, <1>9

(* Each character of an entry is written as one mark: by itself if that    *)
(* means itself, as a backslash before nothing special does, else escaped. *)
Marked(f, p, n, j) ==
  \/ f[j] = <<Backslash, p[j]>> /\ p[j] \in Special
  \/ f[j] = <<p[j]>> /\ p[j] \notin {Semicolon, Backslash}
  \/ /\ f[j] = <<p[j]>> /\ p[j] = Backslash
     /\ j + 1 \in 1..n /\ p[j + 1] \notin Special /\ f[j + 1] = <<p[j + 1]>>

LEMMA MarkFacts ==
  ASSUME NEW w, Sensible(w), NEW pad \in Pads, NEW esc \in Escapings,
         NEW p \in Texts, p = Plain(w, pad), NEW n \in Nat, n = Len(p)
  PROVE  /\ Marks(w, pad, esc) \in Seq(Texts) /\ Len(Marks(w, pad, esc)) = n
         /\ \A j \in 1..n : Marked(Marks(w, pad, esc), p, n, j)
<1>1. PICK l \in Nat : l = Len(Padded(<<w.key>>, pad))
  BY KeyFacts
<1>2. PICK f : f = Marks(w, pad, esc)
  OBVIOUS
<1> DEFINE Hidden(j) == /\ p[j] \in Special /\ j # l + 1
                        /\ esc = "needed" => NeedsEscape(p, j)
<1>3. f = [j \in 1..n |-> IF Hidden(j) THEN <<Backslash, p[j]>> ELSE <<p[j]>>]
  BY <1>1, <1>2 DEF Marks
<1>4. DOMAIN f = 1..n /\ \A j \in 1..n : p[j] \in Alphabet
  BY <1>3 DEF Texts
<1>5. ASSUME NEW j \in 1..n
      PROVE  f[j] = IF Hidden(j) THEN <<Backslash, p[j]>> ELSE <<p[j]>>
  BY <1>3
<1>6. ASSUME NEW j \in 1..n PROVE f[j] \in Texts
  <2>1. p[j] \in Alphabet /\ Backslash \in Alphabet
    BY <1>4, CharFacts
  <2>2. <<Backslash, p[j]>> \in Texts /\ <<p[j]>> \in Texts
    BY <2>1 DEF Texts
  <2>3. QED
    BY <1>5, <2>2
<1>7. f \in Seq(Texts) /\ Len(f) = n
  <2>1. f \in [1..n -> Texts]
    BY <1>3, <1>6
  <2>2. QED
    BY <2>1
<1>8. ASSUME NEW j \in 1..n PROVE Marked(f, p, n, j)
  <2>1. CASE Hidden(j)
    BY <1>5, <2>1 DEF Marked
  <2>2. CASE p[j] \notin Special
    <3>1. p[j] \notin {Semicolon, Backslash}
      BY <2>2 DEF Special
    <3>2. QED
      BY <1>5, <2>2, <3>1 DEF Marked
  <2>3. CASE j = l + 1
    <3>1. p[j] = EqualSign
      <4>1. CASE w.bare
        <5>1. PICK q \in Texts : q = Padded(<<w.key>>, pad)
          BY KeyFacts
        <5>2. p = q \o <<>> /\ q \o <<>> = q
          BY <4>1, <5>1, ConcatEmptySeq DEF Plain, Texts
        <5>3. n = l
          BY <1>1, <5>1, <5>2
        <5>4. QED
          BY <2>3, <5>3
      <4>2. CASE ~w.bare
        <5>1. PICK m \in Nat : m = Len(Padded(w.value, pad))
          <6>1. w.value \in Texts
            BY DEF Sensible, Settings
          <6>2. PICK i \in Nat, k \in Nat : i = Len(pad) /\ k = Len(w.value)
            BY <6>1, PadFacts DEF Texts
          <6>3. Around(Padded(w.value, pad), w.value, i, k)
            BY <6>1, <6>2, PaddedFacts
          <6>4. QED
            BY <6>2, <6>3 DEF Around
        <5>2. Entry(p, Padded(<<w.key>>, pad), Padded(w.value, pad), l, m)
          BY <1>1, <4>2, <5>1, PlainFacts
        <5>3. QED
          BY <2>3, <5>2 DEF Entry
      <4>3. QED
        BY <4>1, <4>2
    <3>2. f[j] = <<p[j]>>
      BY <1>5, <2>3
    <3>3. QED
      BY <3>1, <3>2, CharFacts DEF Marked
  <2>4. CASE ~NeedsEscape(p, j) /\ ~Hidden(j)
    <3>1. f[j] = <<p[j]>>
      BY <1>5, <2>4
    <3>2. CASE p[j] # Backslash
      BY <2>4, <3>1, <3>2 DEF NeedsEscape, Marked
    <3>3. CASE p[j] = Backslash
      <4>1. j # n /\ p[j + 1] \notin Special
        BY <2>4, <3>3 DEF NeedsEscape
      <4>2. j + 1 \in 1..n
        BY <4>1
      <4>3. f[j + 1] = <<p[j + 1]>>
        BY <1>5, <4>1, <4>2
      <4>4. QED
        BY <3>1, <3>3, <4>1, <4>2, <4>3 DEF Marked
    <3>4. QED
      BY <3>2, <3>3
  <2>5. QED
    BY <2>1, <2>2, <2>3, <2>4
<1>9. QED
  BY <1>2, <1>7, <1>8

-----------------------------------------------------------------------------
(* The text and the scanner. Ahead is what follows the first i marks of    *)
(* the j-th entry.                                                         *)
Ahead(ws, pad, esc, j, i) ==
  After(Marks(ws[j], pad, esc), i) \o (Separator(ws, j) \o After(Parts(ws, pad, esc), j))

LEMMA PlainIs ==
  ASSUME NEW w, Sensible(w), NEW pad \in Pads
  PROVE  Plain(w, pad) \in Texts
<1>1. w.bare \in BOOLEAN
  BY DEF Sensible, Settings
<1>2. QED
  BY <1>1, BareRead, ValueRead

LEMMA SeparatorIs ==
  ASSUME NEW ws, NEW j
  PROVE  Separator(ws, j) \in Texts
BY CharFacts DEF Separator, Texts

LEMMA MarksBehind ==
  ASSUME NEW w, Sensible(w), NEW pad \in Pads, NEW esc \in Escapings,
         NEW n \in Nat, n = Len(Plain(w, pad))
  PROVE  Marks(w, pad, esc) \in Seq(Texts) /\ Behind(Marks(w, pad, esc), n)
<1>1. PICK p \in Texts : p = Plain(w, pad) /\ n = Len(p)
  BY PlainIs
<1>2. Marks(w, pad, esc) \in Seq(Texts) /\ Len(Marks(w, pad, esc)) = n
  BY <1>1, MarkFacts
<1>3. QED
  BY <1>2, AfterFacts

LEMMA PartsBehind ==
  ASSUME NEW ws \in Wishes, NEW pad \in Pads, NEW esc \in Escapings, NEW k \in Nat, k = Len(ws)
  PROVE  /\ Behind(Parts(ws, pad, esc), k)
         /\ \A j \in 1..k : Parts(ws, pad, esc)[j] = Concat(Marks(ws[j], pad, esc)) \o Separator(ws, j)
<1>1. PICK f : f = Parts(ws, pad, esc)
  OBVIOUS
<1>2. f = [j \in 1..k |-> Concat(Marks(ws[j], pad, esc)) \o Separator(ws, j)]
  BY <1>1 DEF Parts
<1>3. ASSUME NEW j \in 1..k PROVE Concat(Marks(ws[j], pad, esc)) \o Separator(ws, j) \in Texts
  <2>1. Sensible(ws[j])
    BY WishFacts
  <2>2. PICK n \in Nat : n = Len(Plain(ws[j], pad))
    BY <2>1, PlainIs DEF Texts
  <2>3. Behind(Marks(ws[j], pad, esc), n) /\ 0 \in 0..n
    BY <2>1, <2>2, MarksBehind
  <2>4. Concat(Marks(ws[j], pad, esc)) \in Texts
    BY <2>3 DEF Behind
  <2>5. QED
    BY <2>4, SeparatorIs, ConcatProperties DEF Texts
<1>4. f \in [1..k -> Texts]
  BY <1>2, <1>3
<1>5. f \in Seq(Texts) /\ Len(f) = k
  BY <1>4
<1>6. Behind(f, k)
  BY <1>5, AfterFacts
<1>7. QED
  BY <1>1, <1>2, <1>6

Written(ws, pad, esc, j, n) ==
  /\ \A i \in 0..n : Ahead(ws, pad, esc, j, i) \in Texts
  /\ \A i \in 1..n : Ahead(ws, pad, esc, j, i - 1) = Marks(ws[j], pad, esc)[i] \o Ahead(ws, pad, esc, j, i)
  /\ Ahead(ws, pad, esc, j, n) = Separator(ws, j) \o After(Parts(ws, pad, esc), j)
  /\ After(Parts(ws, pad, esc), j - 1) = Ahead(ws, pad, esc, j, 0)

LEMMA AheadFacts ==
  ASSUME NEW ws \in Wishes, NEW pad \in Pads, NEW esc \in Escapings, NEW j \in 1..Len(ws),
         NEW n \in Nat, n = Len(Plain(ws[j], pad))
  PROVE  Written(ws, pad, esc, j, n)
<1>1. PICK k \in Nat : k = Len(ws)
  BY WishFacts
<1>2. PICK f : f = Marks(ws[j], pad, esc)
  OBVIOUS
<1>3. PICK g : g = Parts(ws, pad, esc)
  OBVIOUS
<1>4. f \in Seq(Texts) /\ Len(f) = n /\ Behind(f, n)
  <2>1. Sensible(ws[j])
    BY WishFacts
  <2>2. PICK p \in Texts : p = Plain(ws[j], pad) /\ n = Len(p)
    BY <2>1, PlainIs
  <2>3. QED
    BY <1>2, <2>1, <2>2, MarksBehind, MarkFacts
<1>5. Behind(g, k) /\ g[j] = Concat(f) \o Separator(ws, j)
  BY <1>1, <1>2, <1>3, PartsBehind
<1>6. PICK e : e = Separator(ws, j) /\ e \in Texts
  BY SeparatorIs
<1>7. PICK t : t = After(g, j) /\ t \in Texts /\ After(g, j - 1) = g[j] \o t
  <2>1. j \in 0..k
    BY <1>1
  <2>2. QED
    BY <1>1, <1>5, <2>1 DEF Behind
<1>8. PICK r : r = e \o t /\ r \in Texts
  BY <1>6, <1>7, ConcatProperties DEF Texts
<1>9. \A i : Ahead(ws, pad, esc, j, i) = After(f, i) \o r
  BY <1>2, <1>3, <1>6, <1>7, <1>8 DEF Ahead
<1>10. ASSUME NEW i \in 0..n PROVE Ahead(ws, pad, esc, j, i) \in Texts
  <2>1. After(f, i) \in Texts
    BY <1>4 DEF Behind
  <2>2. QED
    BY <1>8, <1>9, <2>1, ConcatProperties DEF Texts
<1>11. ASSUME NEW i \in 1..n PROVE Ahead(ws, pad, esc, j, i - 1) = f[i] \o Ahead(ws, pad, esc, j, i)
  <2>1. i \in 0..n
    OBVIOUS
  <2>2. After(f, i) \in Texts /\ f[i] \in Texts /\ After(f, i - 1) = f[i] \o After(f, i)
    BY <1>4, <2>1 DEF Behind
  <2>3. (f[i] \o After(f, i)) \o r = f[i] \o (After(f, i) \o r)
    BY <1>8, <2>2, Assoc, Zenon
  <2>4. QED
    BY <1>9, <2>2, <2>3
<1>12. Ahead(ws, pad, esc, j, n) = r
  <2>1. After(f, n) = <<>>
    BY <1>4 DEF Behind
  <2>2. QED
    BY <1>8, <1>9, <2>1, ConcatEmptySeq DEF Texts
<1>13. After(g, j - 1) = Ahead(ws, pad, esc, j, 0)
  <2>1. After(f, 0) = Concat(f) /\ 0 \in 0..n
    BY <1>4 DEF Behind
  <2>2. After(f, 0) \in Texts
    BY <1>4, <2>1 DEF Behind
  <2>3. (After(f, 0) \o e) \o t = After(f, 0) \o (e \o t)
    BY <1>6, <1>7, <2>2, Assoc, Zenon
  <2>4. After(g, j - 1) = (After(f, 0) \o e) \o t
    BY <1>5, <1>6, <1>7, <2>1
  <2>5. QED
    BY <1>8, <1>9, <2>3, <2>4
<1>14. QED
  BY <1>2, <1>3, <1>6, <1>7, <1>8, <1>10, <1>11, <1>12, <1>13 DEF Written

(* The next mark of a text.                                                *)
Onward(r, pre, x, y, k, m) ==
  /\ r = (pre \o x) \o y /\ pre \o x \in Texts /\ Len(pre \o x) = k + m
  /\ \A z \in 1..m : r[k + z] = x[z]
  /\ Len(r) \in Nat /\ k + m <= Len(r)

LEMMA NextMark ==
  ASSUME NEW pre \in Texts, NEW x \in Texts, NEW y \in Texts, NEW k \in Nat, NEW m \in Nat,
         k = Len(pre), m = Len(x)
  PROVE  Onward(pre \o (x \o y), pre, x, y, k, m)
<1>1. pre \o (x \o y) = (pre \o x) \o y
  BY Assoc, Zenon
<1>2. Joined(pre \o x, Alphabet, pre, x, k, m)
  BY Two DEF Texts
<1>3. PICK u \in Texts, l \in Nat, n \in Nat : u = pre \o x /\ l = k + m /\ l = Len(u) /\ n = Len(y)
  <2>1. pre \o x \in Texts /\ Len(pre \o x) = k + m /\ k + m \in Nat /\ Len(y) \in Nat
    BY <1>2 DEF Joined, Texts
  <2>2. QED
    BY <2>1
<1>4. Joined(u \o y, Alphabet, u, y, l, n)
  BY <1>3, Two DEF Texts
<1>5. PICK r : r = u \o y
  OBVIOUS
<1>6. Len(r) = l + n
  BY <1>4, <1>5 DEF Joined
<1>7. ASSUME NEW z \in 1..m PROVE r[k + z] = x[z]
  <2>1. k + z \in 1..l
    BY <1>3
  <2>2. r[k + z] = u[k + z]
    BY <1>4, <1>5, <2>1, Zenon DEF Joined
  <2>3. u[k + z] = x[z]
    BY <1>2, <1>3, Zenon DEF Joined
  <2>4. QED
    BY <2>2, <2>3
<1>8. Onward(r, pre, x, y, k, m)
  BY <1>3, <1>5, <1>6, <1>7 DEF Onward
<1>9. QED
  BY <1>1, <1>3, <1>5, <1>8

(* The scanner has read i characters of the j-th entry, and the entries    *)
(* before it; pre is the text behind it.                                   *)
Place(ws, pad, esc, r, a, cur, ent, j, i, pre) ==
  /\ pre \in Texts /\ r = pre \o Ahead(ws, pad, esc, j, i) /\ a = Len(pre) + 1
  /\ i <= Len(Plain(ws[j], pad)) /\ cur = SubSeq(Plain(ws[j], pad), 1, i)
  /\ ent \in Seq(Texts) /\ Len(ent) = j - 1
  /\ \A x \in 1..(j - 1) : ent[x] = Plain(ws[x], pad)

Reading(ws, pad, esc, r, a, cur, ent) ==
  IF ws = <<>>
  THEN r = <<>> /\ a = 1 /\ cur = <<>> /\ ent = <<>>
  ELSE \E j \in 1..Len(ws), i \in Nat : \E pre : Place(ws, pad, esc, r, a, cur, ent, j, i, pre)

(* The entries of the settings behind the first k wait to be applied.      *)
Waiting(ws, pad, k, ent) ==
  IF ws = <<>>
  THEN k = 0 /\ ent \in {<<>>, <<<<>>>>}
  ELSE /\ ent \in Seq(Texts) /\ Len(ent) = Len(ws) - k
       /\ \A x \in 1..(Len(ws) - k) : ent[x] = Plain(ws[k + x], pad)

(* What a turn of the scanner finds.                                       *)
Turn(ws, pad, esc, r, a, cur, ent) ==
  \/ /\ a \in Nat /\ Len(r) \in Nat /\ a < Len(r) /\ r[a] = Backslash /\ r[a + 1] \in Special
     /\ Reading(ws, pad, esc, r, a + 2, Append(cur, r[a + 1]), ent)
  \/ /\ a \in Nat /\ Len(r) \in Nat /\ a <= Len(r) /\ r[a] # Semicolon
     /\ r[a] = Backslash => r[a + 1] \notin Special
     /\ Reading(ws, pad, esc, r, a + 1, Append(cur, r[a]), ent)
  \/ /\ a \in Nat /\ Len(r) \in Nat /\ a <= Len(r) /\ r[a] = Semicolon
     /\ Reading(ws, pad, esc, r, a + 1, <<>>, Append(ent, cur))
  \/ /\ a \in Nat /\ Len(r) \in Nat /\ a > Len(r)
     /\ Waiting(ws, pad, 0, Append(ent, cur))

LEMMA PrefixGrows ==
  ASSUME NEW p \in Texts, NEW n \in Nat, n = Len(p), NEW i \in Nat, i < n
  PROVE  SubSeq(p, 1, i + 1) = Append(SubSeq(p, 1, i), p[i + 1])
<1>1. CutAt(p, Alphabet, i, n) /\ CutAt(p, Alphabet, i + 1, n)
  BY Cut DEF Texts
<1>2. PICK s \in Seq(Alphabet), t \in Seq(Alphabet) :
        s = SubSeq(p, 1, i) /\ t = SubSeq(p, 1, i + 1) /\ Len(s) = i /\ Len(t) = i + 1
  BY <1>1 DEF CutAt
<1>3. p \in Seq(Alphabet) /\ p[i + 1] \in Alphabet
  BY DEF Texts
<1>4. PICK u \in Seq(Alphabet) : u = Append(s, p[i + 1])
  BY <1>2, <1>3
<1>5. Len(u) = i + 1 /\ (\A x \in 1..i : u[x] = s[x]) /\ u[i + 1] = p[i + 1]
  BY <1>2, <1>3, <1>4
<1>6. ASSUME NEW x \in 1..(i + 1) PROVE t[x] = u[x]
  <2>1. t[x] = p[x]
    BY <1>2, <1>3
  <2>2. CASE x = i + 1
    BY <1>5, <2>1, <2>2
  <2>3. CASE x # i + 1
    <3>1. x \in 1..i
      BY <2>3
    <3>2. s[x] = p[x]
      BY <1>2, <1>3, <3>1
    <3>3. QED
      BY <1>5, <2>1, <3>1, <3>2
  <2>4. QED
    BY <2>2, <2>3
<1>7. t = u
  BY <1>2, <1>4, <1>5, <1>6, SeqEqual
<1>8. QED
  BY <1>2, <1>4, <1>7

(* An entry that is read to its end joins the others.                      *)
LEMMA EntryJoins ==
  ASSUME NEW ent \in Seq(Texts), NEW p \in Texts, NEW k \in Nat, Len(ent) = k
  PROVE  /\ Append(ent, p) \in Seq(Texts) /\ Len(Append(ent, p)) = k + 1
         /\ Append(ent, p)[k + 1] = p /\ \A x \in 1..k : Append(ent, p)[x] = ent[x]
OBVIOUS

LEMMA InsideTurn ==
  ASSUME NEW ws \in Wishes, ws # <<>>, NEW pad \in Pads, NEW esc \in Escapings,
         NEW r, NEW a, NEW cur, NEW ent, NEW j \in 1..Len(ws), NEW i \in Nat, NEW pre,
         Place(ws, pad, esc, r, a, cur, ent, j, i, pre), i < Len(Plain(ws[j], pad))
  PROVE  Turn(ws, pad, esc, r, a, cur, ent)
<1>0. Sensible(ws[j])
  BY WishFacts
<1>1. PICK p \in Texts, n \in Nat : p = Plain(ws[j], pad) /\ n = Len(p) /\ i < n
  BY <1>0, PlainIs DEF Texts
<1>2. PICK c \in 1..n : c = i + 1 /\ c - 1 = i
  BY <1>1
<1>3. Written(ws, pad, esc, j, n)
  BY <1>1, AheadFacts
<1>4. PICK y \in Texts : y = Ahead(ws, pad, esc, j, c)
  <2>1. c \in 0..n
    BY <1>2
  <2>2. QED
    BY <1>3, <2>1 DEF Written
<1>5. PICK x : x = Marks(ws[j], pad, esc)[c]
  OBVIOUS
<1>6. p[c] \in Alphabet
  BY <1>1 DEF Texts
<1>7. Marked(Marks(ws[j], pad, esc), p, n, c)
  BY <1>0, <1>1, <1>5, MarkFacts
<1>8. Ahead(ws, pad, esc, j, i) = x \o y
  BY <1>2, <1>3, <1>4, <1>5 DEF Written
<1>9. pre \in Texts /\ r = pre \o (x \o y)
  BY <1>8 DEF Place
<1>10. PICK k \in Nat : k = Len(pre) /\ a = k + 1
  BY <1>9 DEF Place, Texts
<1>11. Append(cur, p[c]) = SubSeq(p, 1, c)
  <2>1. cur = SubSeq(p, 1, i)
    BY <1>1 DEF Place
  <2>2. QED
    BY <1>1, <1>2, <2>1, PrefixGrows
<1>12. ASSUME NEW m \in Nat, x \in Texts, m = Len(x), NEW b, b = a + m
       PROVE  Reading(ws, pad, esc, r, b, Append(cur, p[c]), ent)
  <2>1. Onward(r, pre, x, y, k, m)
    BY <1>9, <1>10, <1>12, NextMark
  <2>2. PICK q : q = pre \o x
    OBVIOUS
  <2>3. q \in Texts /\ r = q \o y /\ Len(q) = k + m
    BY <2>1, <2>2 DEF Onward
  <2>4. b = Len(q) + 1
    BY <1>10, <1>12, <2>3
  <2>5. Place(ws, pad, esc, r, b, Append(cur, p[c]), ent, j, c, q)
    BY <1>1, <1>2, <1>4, <1>11, <2>3, <2>4 DEF Place
  <2>6. c \in Nat
    OBVIOUS
  <2>7. QED
    BY <2>5, <2>6 DEF Reading
<1>13. CASE x = <<Backslash, p[c]>> /\ p[c] \in Special
  <2>1. x \in Texts /\ Len(x) = 2 /\ x[1] = Backslash /\ x[2] = p[c]
    BY <1>6, <1>13, CharFacts DEF Texts
  <2>2. Onward(r, pre, x, y, k, 2)
    BY <1>9, <1>10, <2>1, NextMark
  <2>3. 1 \in 1..2 /\ 2 \in 1..2 /\ k + 2 = a + 1
    BY <1>10
  <2>4. r[k + 1] = Backslash /\ r[k + 2] = p[c] /\ Len(r) \in Nat /\ k + 2 <= Len(r)
    BY <2>1, <2>2, <2>3 DEF Onward
  <2>5. a \in Nat /\ a < Len(r) /\ r[a] = Backslash /\ r[a + 1] = p[c]
    BY <1>10, <2>3, <2>4
  <2>6. Reading(ws, pad, esc, r, a + 2, Append(cur, p[c]), ent)
    BY <1>12, <2>1
  <2>7. QED
    BY <1>13, <2>4, <2>5, <2>6 DEF Turn
<1>14. CASE x = <<p[c]>> /\ p[c] \notin {Semicolon, Backslash}
  <2>1. x \in Texts /\ Len(x) = 1 /\ x[1] = p[c]
    BY <1>6, <1>14 DEF Texts
  <2>2. Onward(r, pre, x, y, k, 1)
    BY <1>9, <1>10, <2>1, NextMark
  <2>3. 1 \in 1..1
    OBVIOUS
  <2>4. r[k + 1] = p[c] /\ Len(r) \in Nat /\ k + 1 <= Len(r)
    BY <2>1, <2>2, <2>3 DEF Onward
  <2>5. a \in Nat /\ a <= Len(r) /\ r[a] = p[c]
    BY <1>10, <2>4
  <2>6. Reading(ws, pad, esc, r, a + 1, Append(cur, p[c]), ent)
    BY <1>12, <2>1
  <2>7. QED
    BY <1>14, <2>4, <2>5, <2>6 DEF Turn
<1>15. CASE /\ x = <<p[c]>> /\ p[c] = Backslash
            /\ c + 1 \in 1..n /\ p[c + 1] \notin Special
            /\ Marks(ws[j], pad, esc)[c + 1] = <<p[c + 1]>>
  <2>1. x \in Texts /\ Len(x) = 1 /\ x[1] = p[c]
    BY <1>6, <1>15 DEF Texts
  <2>2. Onward(r, pre, x, y, k, 1)
    BY <1>9, <1>10, <2>1, NextMark
  <2>3. 1 \in 1..1
    OBVIOUS
  <2>4. r[k + 1] = p[c] /\ Len(r) \in Nat /\ k + 1 <= Len(r)
    BY <2>1, <2>2, <2>3 DEF Onward
  <2>5. PICK q : q = pre \o x /\ q \in Texts /\ r = q \o y /\ Len(q) = k + 1
    BY <2>2 DEF Onward
  <2>6. PICK d \in 1..n : d = c + 1 /\ d - 1 = c
    BY <1>15
  <2>7. p[d] \in Alphabet
    BY <1>1 DEF Texts
  <2>8. PICK e : e = <<p[d]>>
    OBVIOUS
  <2>9. e \in Texts /\ Len(e) = 1 /\ e[1] = p[d]
    BY <2>7, <2>8 DEF Texts
  <2>10. PICK z \in Texts : z = Ahead(ws, pad, esc, j, d)
    <3>1. d \in 0..n
      OBVIOUS
    <3>2. QED
      BY <1>3, <3>1 DEF Written
  <2>11. y = e \o z
    BY <1>3, <1>4, <1>15, <2>6, <2>8, <2>10 DEF Written
  <2>12. PICK g \in Nat : g = k + 1 /\ g = Len(q)
    BY <2>5
  <2>13. r[g + 1] = p[d]
    <3>1. Onward(q \o (e \o z), q, e, z, g, 1)
      BY <2>5, <2>9, <2>12, NextMark
    <3>2. r = q \o (e \o z)
      BY <2>5, <2>11
    <3>3. QED
      BY <2>3, <2>9, <3>1, <3>2 DEF Onward
  <2>14. a \in Nat /\ a <= Len(r) /\ r[a] = p[c] /\ r[a + 1] \notin Special
    BY <1>10, <1>15, <2>4, <2>6, <2>12, <2>13
  <2>15. Reading(ws, pad, esc, r, a + 1, Append(cur, p[c]), ent)
    BY <1>12, <2>1
  <2>16. QED
    BY <1>15, <2>4, <2>14, <2>15, CharFacts DEF Turn
<1>16. QED
  BY <1>5, <1>7, <1>13, <1>14, <1>15 DEF Marked

LEMMA EndTurn ==
  ASSUME NEW ws \in Wishes, ws # <<>>, NEW pad \in Pads, NEW esc \in Escapings,
         NEW r, NEW a, NEW cur, NEW ent, NEW j \in 1..Len(ws), NEW i \in Nat, NEW pre,
         Place(ws, pad, esc, r, a, cur, ent, j, i, pre), i = Len(Plain(ws[j], pad))
  PROVE  Turn(ws, pad, esc, r, a, cur, ent)
<1>0. Sensible(ws[j])
  BY WishFacts
<1>1. PICK p \in Texts : p = Plain(ws[j], pad) /\ i = Len(p)
  BY <1>0, PlainIs
<1>2. cur = p
  <2>1. cur = SubSeq(p, 1, i)
    BY <1>1 DEF Place
  <2>2. QED
    BY <1>1, <2>1, SubSeqFull DEF Texts
<1>3. PICK l \in Nat : l = Len(ws) /\ j \in 1..l
  BY WishFacts
<1>4. PICK y : y = After(Parts(ws, pad, esc), j) /\ y \in Texts
  <2>1. Behind(Parts(ws, pad, esc), l) /\ j \in 0..l
    BY <1>3, PartsBehind
  <2>2. QED
    BY <2>1 DEF Behind
<1>5. pre \in Texts /\ r = pre \o (Separator(ws, j) \o y)
  <2>1. Written(ws, pad, esc, j, i)
    BY <1>1, AheadFacts
  <2>2. QED
    BY <1>4, <2>1 DEF Written, Place
<1>6. PICK k \in Nat : k = Len(pre) /\ a = k + 1
  BY <1>5 DEF Place, Texts
<1>7. PICK h \in Nat : h = j - 1 /\ ent \in Seq(Texts) /\ Len(ent) = h
  BY <1>3 DEF Place
<1>8. PICK new : new = Append(ent, cur)
  OBVIOUS
<1>9. new \in Seq(Texts) /\ Len(new) = j /\ new[j] = p /\ \A x \in 1..h : new[x] = ent[x]
  <2>1. h + 1 = j
    BY <1>3, <1>7
  <2>2. /\ new \in Seq(Texts) /\ Len(new) = h + 1
        /\ new[h + 1] = p /\ \A x \in 1..h : new[x] = ent[x]
    BY <1>2, <1>7, <1>8, EntryJoins
  <2>3. QED
    BY <2>1, <2>2
<1>10. ASSUME NEW x \in 1..j PROVE new[x] = Plain(ws[x], pad)
  <2>1. CASE x = j
    BY <1>1, <1>9, <2>1
  <2>2. CASE x # j
    <3>1. x \in 1..h /\ x \in 1..(j - 1)
      BY <1>3, <1>7, <2>2
    <3>2. ent[x] = Plain(ws[x], pad)
      BY <3>1 DEF Place
    <3>3. QED
      BY <1>9, <3>1, <3>2
  <2>3. QED
    BY <2>1, <2>2
<1>11. CASE j < l
  <2>1. PICK e : e = <<Semicolon>>
    OBVIOUS
  <2>2. e \in Texts /\ Len(e) = 1 /\ e[1] = Semicolon
    BY <2>1, CharFacts DEF Texts
  <2>3. Separator(ws, j) = e
    BY <1>3, <1>11, <2>1 DEF Separator
  <2>4. Onward(r, pre, e, y, k, 1)
    BY <1>4, <1>5, <1>6, <2>2, <2>3, NextMark
  <2>5. 1 \in 1..1
    OBVIOUS
  <2>6. r[k + 1] = Semicolon /\ Len(r) \in Nat /\ k + 1 <= Len(r)
    BY <2>2, <2>4, <2>5 DEF Onward
  <2>7. PICK q : q = pre \o e /\ q \in Texts /\ r = q \o y /\ Len(q) = k + 1
    BY <2>4 DEF Onward
  <2>8. PICK g \in 1..Len(ws) : g = j + 1 /\ g - 1 = j
    BY <1>3, <1>11
  <2>9. Sensible(ws[g])
    BY WishFacts
  <2>10. PICK s \in Texts, n \in Nat : s = Plain(ws[g], pad) /\ n = Len(s)
    BY <2>9, PlainIs DEF Texts
  <2>11. y = Ahead(ws, pad, esc, g, 0)
    <3>1. Written(ws, pad, esc, g, n)
      BY <2>10, AheadFacts
    <3>2. QED
      BY <1>4, <2>8, <3>1 DEF Written
  <2>12. SubSeq(s, 1, 0) = <<>>
    BY SubSeqEmpty DEF Texts
  <2>13. Place(ws, pad, esc, r, a + 1, <<>>, new, g, 0, q)
    <3>1. q \in Texts /\ r = q \o Ahead(ws, pad, esc, g, 0) /\ a + 1 = Len(q) + 1
      BY <1>6, <2>7, <2>11
    <3>2. 0 <= Len(Plain(ws[g], pad)) /\ <<>> = SubSeq(Plain(ws[g], pad), 1, 0)
      BY <2>10, <2>12
    <3>3. /\ new \in Seq(Texts) /\ Len(new) = g - 1
          /\ \A x \in 1..(g - 1) : new[x] = Plain(ws[x], pad)
      BY <1>9, <1>10, <2>8
    <3>4. QED
      BY <3>1, <3>2, <3>3 DEF Place
  <2>14. Reading(ws, pad, esc, r, a + 1, <<>>, new)
    BY <2>13 DEF Reading
  <2>15. QED
    BY <1>6, <1>8, <2>6, <2>14 DEF Turn
<1>12. CASE j = l
  <2>1. Separator(ws, j) = <<>> /\ y = <<>>
    <3>1. Behind(Parts(ws, pad, esc), l)
      BY <1>3, PartsBehind
    <3>2. ~(j < Len(ws))
      BY <1>3, <1>12
    <3>3. QED
      BY <1>4, <1>12, <3>1, <3>2 DEF Separator, Behind
  <2>2. r = pre
    <3>1. <<>> \o <<>> = <<>> /\ pre \o <<>> = pre
      BY <1>5, EmptySeq, ConcatEmptySeq DEF Texts
    <3>2. QED
      BY <1>5, <2>1, <3>1
  <2>3. Waiting(ws, pad, 0, new)
    <3>1. Len(new) = Len(ws) - 0 /\ 1..(Len(ws) - 0) = 1..j
      BY <1>3, <1>9, <1>12
    <3>2. ASSUME NEW x \in 1..j PROVE new[x] = Plain(ws[0 + x], pad)
      <4>1. 0 + x = x
        OBVIOUS
      <4>2. QED
        BY <1>10, <4>1
    <3>3. QED
      BY <1>9, <3>1, <3>2 DEF Waiting
  <2>4. QED
    BY <1>6, <1>8, <2>2, <2>3 DEF Turn
<1>13. QED
  BY <1>3, <1>11, <1>12

LEMMA TurnFacts ==
  ASSUME NEW ws \in Wishes, NEW pad \in Pads, NEW esc \in Escapings,
         NEW r, NEW a, NEW cur, NEW ent, Reading(ws, pad, esc, r, a, cur, ent)
  PROVE  Turn(ws, pad, esc, r, a, cur, ent)
<1>1. CASE ws = <<>>
  <2>1. r = <<>> /\ a = 1 /\ cur = <<>> /\ ent = <<>>
    BY <1>1 DEF Reading
  <2>2. Len(r) = 0 /\ Append(ent, cur) = <<<<>>>>
    BY <2>1
  <2>3. Waiting(ws, pad, 0, Append(ent, cur))
    BY <1>1, <2>2 DEF Waiting
  <2>4. QED
    BY <2>1, <2>2, <2>3 DEF Turn
<1>2. CASE ws # <<>>
  <2>1. PICK j \in 1..Len(ws), i \in Nat : \E pre : Place(ws, pad, esc, r, a, cur, ent, j, i, pre)
    BY <1>2 DEF Reading
  <2>2. PICK pre : Place(ws, pad, esc, r, a, cur, ent, j, i, pre)
    BY <2>1
  <2>3. Plain(ws[j], pad) \in Texts
    BY WishFacts, PlainIs
  <2>4. i < Len(Plain(ws[j], pad)) \/ i = Len(Plain(ws[j], pad))
    BY <2>2, <2>3 DEF Place, Texts
  <2>5. QED
    BY <1>2, <2>2, <2>4, InsideTurn, EndTurn
<1>3. QED
  BY <1>1, <1>2

(* The text as it is composed.                                             *)
LEMMA ReadingStarts ==
  ASSUME NEW ws \in Wishes, NEW pad \in Pads, NEW esc \in Escapings
  PROVE  Reading(ws, pad, esc, Compose(ws, pad, esc), 1, <<>>, <<>>)
<1>1. PICK l \in Nat : l = Len(ws)
  BY WishFacts
<1>2. PICK g : g = Parts(ws, pad, esc) /\ Behind(g, l)
  BY <1>1, PartsBehind
<1>3. Compose(ws, pad, esc) = After(g, 0)
  BY <1>2 DEF Compose, Behind
<1>4. CASE ws = <<>>
  <2>1. l = 0
    BY <1>1, <1>4
  <2>2. QED
    BY <1>2, <1>3, <1>4, <2>1 DEF Reading, Behind
<1>5. CASE ws # <<>>
  <2>1. 1 \in 1..Len(ws) /\ 1 - 1 = 0
    BY <1>1, <1>5, WishFacts
  <2>2. Sensible(ws[1])
    BY <2>1, WishFacts
  <2>3. PICK s \in Texts, n \in Nat : s = Plain(ws[1], pad) /\ n = Len(s)
    BY <2>2, PlainIs DEF Texts
  <2>4. PICK t : t = Ahead(ws, pad, esc, 1, 0) /\ t \in Texts /\ After(g, 0) = t
    <3>1. Written(ws, pad, esc, 1, n) /\ 0 \in 0..n
      BY <2>1, <2>3, AheadFacts
    <3>2. QED
      BY <1>2, <2>1, <3>1 DEF Written
  <2>5. <<>> \in Texts /\ Len(<<>>) = 0 /\ <<>> \o t = t /\ SubSeq(s, 1, 0) = <<>>
    BY <2>4, EmptySeq, ConcatEmptySeq, SubSeqEmpty DEF Texts
  <2>6. Place(ws, pad, esc, t, 1, <<>>, <<>>, 1, 0, <<>>)
    <3>1. 0 <= Len(Plain(ws[1], pad)) /\ <<>> = SubSeq(Plain(ws[1], pad), 1, 0)
      BY <2>3, <2>5
    <3>2. <<>> \in Seq(Texts) /\ Len(<<>>) = 1 - 1 /\ \A x \in 1..(1 - 1) : <<>>[x] = Plain(ws[x], pad)
      OBVIOUS
    <3>3. QED
      BY <2>4, <2>5, <3>1, <3>2 DEF Place
  <2>7. QED
    BY <1>3, <1>5, <2>1, <2>4, <2>6 DEF Reading
<1>6. QED
  BY <1>4, <1>5

-----------------------------------------------------------------------------
(* Applying the entries. What the first k settings ask for.                *)
AskedOf(ws, k, key) ==
  LET said == {j \in 1..k : ws[j].key = key /\ ~ws[j].bare}
  IN IF said = {} THEN Defaults[key] ELSE Setting(key, ws[Max(said)].value)

Asks(ws, k, o) == DOMAIN o = Keys /\ \A key \in Keys : o[key] = AskedOf(ws, k, key)

LEMMA AsksNothing ==
  ASSUME NEW ws
  PROVE  Asks(ws, 0, Defaults)
<1>1. ASSUME NEW key \in Keys PROVE Defaults[key] = AskedOf(ws, 0, key)
  <2>1. {j \in 1..0 : ws[j].key = key /\ ~ws[j].bare} = {}
    OBVIOUS
  <2>2. QED
    BY <2>1 DEF AskedOf
<1>2. DOMAIN Defaults = Keys
  BY DEF Keys
<1>3. QED
  BY <1>1, <1>2 DEF Asks

(* A setting without a value, or of another key, asks nothing of a key;    *)
(* one with a value outdoes those before it.                               *)
LEMMA AsksNoMore ==
  ASSUME NEW ws, NEW k \in Nat, NEW key, ws[k + 1].key # key \/ ws[k + 1].bare
  PROVE  AskedOf(ws, k + 1, key) = AskedOf(ws, k, key)
<1> DEFINE said(n) == {j \in 1..n : ws[j].key = key /\ ~ws[j].bare}
<1>1. \A j \in 1..(k + 1) : j # k + 1 => j \in 1..k
  OBVIOUS
<1>2. \A j \in 1..k : j \in 1..(k + 1)
  OBVIOUS
<1>3. said(k + 1) = said(k)
  <2>1. ASSUME NEW j \in said(k + 1) PROVE j \in said(k)
    <3>1. j \in 1..(k + 1) /\ ws[j].key = key /\ ~ws[j].bare
      OBVIOUS
    <3>2. j # k + 1
      BY <3>1
    <3>3. QED
      BY <1>1, <3>1, <3>2
  <2>2. ASSUME NEW j \in said(k) PROVE j \in said(k + 1)
    BY <1>2
  <2>3. QED
    BY <2>1, <2>2
<1>4. \A n : AskedOf(ws, n, key) = IF said(n) = {} THEN Defaults[key] ELSE Setting(key, ws[Max(said(n))].value)
  BY DEF AskedOf
<1> HIDE DEF said
<1>5. QED
  BY <1>3, <1>4

LEMMA AsksLast ==
  ASSUME NEW ws, NEW k \in Nat, NEW key, ws[k + 1].key = key, ~ws[k + 1].bare
  PROVE  AskedOf(ws, k + 1, key) = Setting(key, ws[k + 1].value)
<1> DEFINE said == {j \in 1..(k + 1) : ws[j].key = key /\ ~ws[j].bare}
<1>1. k + 1 \in 1..(k + 1)
  OBVIOUS
<1>2. k + 1 \in said
  BY <1>1
<1>3. said \subseteq Nat /\ \A j \in said : j <= k + 1
  OBVIOUS
<1>4. AskedOf(ws, k + 1, key) = IF said = {} THEN Defaults[key] ELSE Setting(key, ws[Max(said)].value)
  BY DEF AskedOf
<1> HIDE DEF said
<1>5. Max(said) = k + 1
  BY <1>2, <1>3, MaxIs
<1>6. QED
  BY <1>2, <1>4, <1>5

LEMMA AsksOnBare ==
  ASSUME NEW ws, NEW k \in Nat, NEW o, Asks(ws, k, o), ws[k + 1].bare
  PROVE  Asks(ws, k + 1, o)
<1>1. \A key \in Keys : AskedOf(ws, k + 1, key) = AskedOf(ws, k, key)
  BY AsksNoMore
<1>2. QED
  BY <1>1 DEF Asks

LEMMA AsksOn ==
  ASSUME NEW ws, NEW k \in Nat, NEW o, Asks(ws, k, o), ~ws[k + 1].bare
  PROVE  Asks(ws, k + 1, Applied(o, ws[k + 1].key, ws[k + 1].value))
<1>1. PICK name, v : name = ws[k + 1].key /\ v = ws[k + 1].value
  OBVIOUS
<1>2. PICK z : z = Applied(o, name, v)
  OBVIOUS
<1>3. DOMAIN z = Keys
  BY <1>2 DEF Applied, Asks
<1>4. ASSUME NEW key \in Keys PROVE z[key] = AskedOf(ws, k + 1, key)
  <2>1. CASE key = name
    <3>1. z[key] = Setting(key, v)
      BY <1>2, <2>1 DEF Applied, Asks
    <3>2. QED
      BY <1>1, <2>1, <3>1, AsksLast
  <2>2. CASE key # name
    <3>1. z[key] = o[key]
      BY <1>2, <2>2 DEF Applied, Asks
    <3>2. AskedOf(ws, k + 1, key) = AskedOf(ws, k, key)
      BY <1>1, <2>2, AsksNoMore
    <3>3. QED
      BY <3>1, <3>2 DEF Asks
  <2>3. QED
    BY <2>1, <2>2
<1>5. QED
  BY <1>1, <1>2, <1>3, <1>4 DEF Asks

(* The next entry that waits.                                              *)
LEMMA WaitingNext ==
  ASSUME NEW ws \in Wishes, ws # <<>>, NEW pad \in Pads, NEW k \in 0..Len(ws), NEW ent,
         Waiting(ws, pad, k, ent), ent # <<>>
  PROVE  /\ k + 1 \in 1..Len(ws) /\ Head(ent) = Plain(ws[k + 1], pad)
         /\ Waiting(ws, pad, k + 1, Tail(ent))
<1>1. PICK l \in Nat : l = Len(ws)
  BY WishFacts
<1>2. /\ ent \in Seq(Texts) /\ Len(ent) = l - k
      /\ \A x \in 1..(l - k) : ent[x] = Plain(ws[k + x], pad)
  BY <1>1 DEF Waiting
<1>3. PICK m \in Nat : m = l - k /\ m # 0 /\ m = Len(ent)
  BY <1>1, <1>2, EmptySeq
<1>4. k + 1 \in 1..Len(ws) /\ 1 \in 1..(l - k)
  BY <1>1, <1>3
<1>5. Head(ent) = Plain(ws[k + 1], pad)
  BY <1>2, <1>4
<1>6. Tail(ent) \in Seq(Texts) /\ Len(Tail(ent)) = m - 1 /\ \A x \in 1..(m - 1) : Tail(ent)[x] = ent[x + 1]
  BY <1>2, <1>3
<1>7. Len(ws) - (k + 1) = m - 1
  BY <1>1, <1>3
<1>8. ASSUME NEW x \in 1..(m - 1) PROVE Tail(ent)[x] = Plain(ws[(k + 1) + x], pad)
  <2>1. x + 1 \in 1..(l - k) /\ k + (x + 1) = (k + 1) + x
    BY <1>1, <1>3
  <2>2. ent[x + 1] = Plain(ws[k + (x + 1)], pad)
    BY <1>2, <2>1
  <2>3. QED
    BY <1>6, <2>1, <2>2
<1>9. Waiting(ws, pad, k + 1, Tail(ent))
  BY <1>6, <1>7, <1>8 DEF Waiting
<1>10. QED
  BY <1>4, <1>5, <1>9

-----------------------------------------------------------------------------
(* The way through plugin_opts: nothing is read yet, the text that was     *)
(* composed is being read, the entries read are being applied, and what    *)
(* was asked for is chosen and run.                                        *)
FreshInv ==
  pc \in {"args", "text"} => at = 1 /\ current = <<>> /\ entries = <<>> /\ opts = Defaults

ReadInv ==
  pc = "scan" => /\ wish \in Wishes /\ opts = Defaults
                 /\ \E pad \in Pads, esc \in Escapings :
                      Reading(wish, pad, esc, raw, at, current, entries)

ApplyInv ==
  pc = "apply" => /\ wish \in Wishes
                  /\ \E pad \in Pads, k \in 0..Len(wish) :
                       Waiting(wish, pad, k, entries) /\ Asks(wish, k, opts)

Obeyed(o) ==
  /\ \A key \in Keys \ {"s"} : o[key] = Asked(key)
  /\ o["s"] = Chosen(Asked("s"))

ChosenInv == pc = "env" => Obeyed(opts)

ToldInv ==
  pc = "running" /\ ~flags.config =>
    Obeyed(run.opts) /\ run.listen.at = IF run.role = "client" THEN "local" ELSE "remote"

TextInv == FreshInv /\ ReadInv /\ ApplyInv /\ ChosenInv /\ ToldInv

LEMMA TextInit == Init => TextInv
BY DEF Init, TextInv, FreshInv, ReadInv, ApplyInv, ChosenInv, ToldInv

LEMMA TextArgSteps ==
  ASSUME TextInv, FlagArg \/ BadArg \/ HelpArg \/ ArgsEnd
  PROVE  TextInv'
<1>1. /\ pc = "args" /\ pc' \in {"args", "error", "exit", "file", "text"}
      /\ at' = at /\ current' = current /\ entries' = entries /\ opts' = opts
  BY DEF FlagArg, BadArg, HelpArg, ArgsEnd, Goto, Arg, scanVars
<1>2. FreshInv'
  BY <1>1 DEF TextInv, FreshInv
<1>3. QED
  BY <1>1, <1>2 DEF TextInv, ReadInv, ApplyInv, ChosenInv, ToldInv

LEMMA TextFileStep ==
  ASSUME ConfigInv, TextInv, Standalone
  PROVE  TextInv'
<1>1. pc = "file" /\ pc' \in {"running", "error"} /\ flags' = flags /\ flags.config
  BY DEF Standalone, ConfigInv, SourceInv
<1>2. QED
  BY <1>1 DEF TextInv, FreshInv, ReadInv, ApplyInv, ChosenInv, ToldInv

LEMMA TextReadStep ==
  ASSUME TextInv, ReadOptions
  PROVE  TextInv'
<1>1. PICK ws \in Wishes, pad \in Pads, esc \in Escapings : wish' = ws /\ raw' = Compose(ws, pad, esc)
  BY DEF ReadOptions
<1>2. /\ pc' = "scan" /\ at' = 1 /\ current' = <<>> /\ entries' = <<>> /\ opts' = Defaults
  BY DEF ReadOptions, TextInv, FreshInv
<1>3. Reading(ws, pad, esc, raw', 1, <<>>, <<>>)
  BY <1>1, ReadingStarts
<1>4. ReadInv'
  BY <1>1, <1>2, <1>3 DEF ReadInv
<1>5. QED
  BY <1>2, <1>4 DEF TextInv, FreshInv, ApplyInv, ChosenInv, ToldInv

(* A turn of the scanner is the one its place in the text calls for.       *)
LEMMA TextScanStep ==
  ASSUME TextInv, ScanChar
  PROVE  TextInv'
<1>1. wish \in Wishes /\ opts = Defaults
  BY DEF ScanChar, TextInv, ReadInv
<1>2. PICK pad \in Pads, esc \in Escapings : Reading(wish, pad, esc, raw, at, current, entries)
  BY DEF ScanChar, TextInv, ReadInv
<1>3. Turn(wish, pad, esc, raw, at, current, entries)
  BY <1>1, <1>2, TurnFacts
<1>4. /\ pc' = "scan" /\ wish' = wish /\ opts' = opts /\ raw' = raw /\ at <= Len(raw)
  BY DEF ScanChar
<1>5. /\ \/ /\ Escaped(at)
            /\ current' = Append(current, raw[at + 1]) /\ at' = at + 2 /\ entries' = entries
         \/ /\ raw[at] = Semicolon
            /\ entries' = Append(entries, current) /\ current' = <<>> /\ at' = at + 1
         \/ /\ ~Escaped(at) /\ raw[at] # Semicolon
            /\ current' = Append(current, raw[at]) /\ at' = at + 1 /\ entries' = entries
  BY DEF ScanChar
<1>6. Reading(wish, pad, esc, raw, at', current', entries')
  <2>1. CASE /\ at < Len(raw) /\ raw[at] = Backslash /\ raw[at + 1] \in Special
             /\ Reading(wish, pad, esc, raw, at + 2, Append(current, raw[at + 1]), entries)
    <3>1. Escaped(at) /\ raw[at] # Semicolon
      BY <2>1, CharFacts DEF Escaped
    <3>2. QED
      BY <1>5, <2>1, <3>1
  <2>2. CASE /\ raw[at] # Semicolon /\ (raw[at] = Backslash => raw[at + 1] \notin Special)
             /\ Reading(wish, pad, esc, raw, at + 1, Append(current, raw[at]), entries)
    <3>1. ~Escaped(at) /\ raw[at] # Semicolon
      BY <2>2 DEF Escaped
    <3>2. QED
      BY <1>5, <2>2, <3>1
  <2>3. CASE /\ raw[at] = Semicolon
             /\ Reading(wish, pad, esc, raw, at + 1, <<>>, Append(entries, current))
    <3>1. ~Escaped(at)
      BY <2>3, CharFacts DEF Escaped
    <3>2. QED
      BY <1>5, <2>3, <3>1
  <2>4. CASE at \in Nat /\ Len(raw) \in Nat /\ at > Len(raw)
    BY <1>4, <2>4
  <2>5. QED
    BY <1>3, <2>1, <2>2, <2>3, <2>4 DEF Turn
<1>7. ReadInv'
  BY <1>1, <1>2, <1>4, <1>6 DEF ReadInv
<1>8. QED
  BY <1>4, <1>7 DEF TextInv, FreshInv, ApplyInv, ChosenInv, ToldInv

LEMMA TextEndStep ==
  ASSUME TextInv, ScanEnd
  PROVE  TextInv'
<1>1. wish \in Wishes /\ opts = Defaults
  BY DEF ScanEnd, TextInv, ReadInv
<1>2. PICK pad \in Pads, esc \in Escapings : Reading(wish, pad, esc, raw, at, current, entries)
  BY DEF ScanEnd, TextInv, ReadInv
<1>3. Turn(wish, pad, esc, raw, at, current, entries)
  BY <1>1, <1>2, TurnFacts
<1>4. /\ pc' = "apply" /\ wish' = wish /\ opts' = opts /\ at > Len(raw)
      /\ entries' = Append(entries, current)
  BY DEF ScanEnd
<1>5. Waiting(wish, pad, 0, entries')
  BY <1>3, <1>4 DEF Turn
<1>6. Asks(wish, 0, opts)
  BY <1>1, AsksNothing
<1>7. 0 \in 0..Len(wish)
  BY <1>1, WishFacts
<1>8. ApplyInv'
  BY <1>1, <1>4, <1>5, <1>6, <1>7 DEF ApplyInv
<1>9. QED
  BY <1>4, <1>8 DEF TextInv, FreshInv, ReadInv, ChosenInv, ToldInv

LEMMA TextApplyStep ==
  ASSUME TextInv, Apply
  PROVE  TextInv'
<1>1. wish \in Wishes
  BY DEF Apply, TextInv, ApplyInv
<1>2. PICK pad \in Pads, k \in 0..Len(wish) : Waiting(wish, pad, k, entries) /\ Asks(wish, k, opts)
  BY DEF Apply, TextInv, ApplyInv
<1>3. PICK e : e = Head(entries)
  OBVIOUS
<1>4. /\ pc = "apply" /\ entries # <<>> /\ wish' = wish /\ entries' = Tail(entries)
      /\ \/ Equals(e) = 0 /\ pc' = pc /\ opts' = opts
         \/ /\ Equals(e) # 0 /\ pc' = pc
            /\ opts' = Applied(opts, KeyOf(e)[1], ValueOf(e))
         \/ pc' = "error"
  BY <1>3 DEF Apply
<1>5. CASE pc' = "error"
  BY <1>5 DEF TextInv, FreshInv, ReadInv, ApplyInv, ChosenInv, ToldInv
<1>6. CASE pc' = "apply" /\ wish = <<>>
  <2>1. k = 0 /\ entries = <<<<>>>>
    BY <1>2, <1>4, <1>6 DEF Waiting
  <2>2. e = <<>> /\ Tail(entries) = <<>>
    BY <1>3, <2>1
  <2>3. Equals(e) = 0
    <3>1. {j \in 1..Len(e) : e[j] = EqualSign} = {}
      BY <2>2
    <3>2. QED
      BY <3>1 DEF Equals
  <2>4. opts' = opts
    BY <1>4, <1>6, <2>3
  <2>5. Waiting(wish, pad, k, entries')
    BY <1>4, <1>6, <2>1, <2>2 DEF Waiting
  <2>6. ApplyInv'
    BY <1>1, <1>2, <1>4, <2>4, <2>5 DEF ApplyInv
  <2>7. QED
    BY <1>6, <2>6 DEF TextInv, FreshInv, ReadInv, ChosenInv, ToldInv
<1>7. CASE pc' = "apply" /\ wish # <<>>
  <2>1. /\ k + 1 \in 1..Len(wish) /\ e = Plain(wish[k + 1], pad)
        /\ Waiting(wish, pad, k + 1, entries')
    BY <1>1, <1>2, <1>3, <1>4, <1>7, WaitingNext
  <2>2. Sensible(wish[k + 1])
    BY <1>1, <2>1, WishFacts
  <2>3. k \in Nat /\ k + 1 \in 0..Len(wish)
    BY <1>1, <1>2, <2>1, WishFacts
  <2>4. Asks(wish, k + 1, opts')
    <3>1. CASE wish[k + 1].bare
      <4>1. Equals(e) = 0
        BY <2>1, <2>2, <3>1, BareRead
      <4>2. opts' = opts
        BY <1>4, <1>7, <4>1
      <4>3. QED
        BY <1>2, <2>3, <3>1, <4>2, AsksOnBare
    <3>2. CASE ~wish[k + 1].bare
      <4>1. Equals(e) # 0 /\ KeyOf(e)[1] = wish[k + 1].key /\ ValueOf(e) = wish[k + 1].value
        BY <2>1, <2>2, <3>2, ValueRead
      <4>2. opts' = Applied(opts, wish[k + 1].key, wish[k + 1].value)
        BY <1>4, <1>7, <4>1
      <4>3. QED
        BY <1>2, <2>3, <3>2, <4>2, AsksOn
    <3>3. QED
      BY <3>1, <3>2
  <2>5. ApplyInv'
    BY <1>1, <1>2, <1>4, <2>1, <2>3, <2>4 DEF ApplyInv
  <2>6. QED
    BY <1>7, <2>5 DEF TextInv, FreshInv, ReadInv, ChosenInv, ToldInv
<1>8. QED
  BY <1>4, <1>5, <1>6, <1>7

(* Once every entry is applied, the options are what was asked for.        *)
LEMMA TextValidateStep ==
  ASSUME TextInv, Validate
  PROVE  TextInv'
<1>1. wish \in Wishes
  BY DEF Validate, TextInv, ApplyInv
<1>2. PICK pad \in Pads, k \in 0..Len(wish) : Waiting(wish, pad, k, entries) /\ Asks(wish, k, opts)
  BY DEF Validate, TextInv, ApplyInv
<1>3. /\ entries = <<>> /\ pc' \in {"error", "env"} /\ wish' = wish /\ flags' = flags
      /\ opts' = [opts EXCEPT !.s = Chosen(opts["s"])]
  BY DEF Validate
<1>4. k = Len(wish)
  <2>1. PICK l \in Nat : l = Len(wish)
    BY <1>1, WishFacts
  <2>2. CASE wish = <<>>
    BY <1>2, <2>2 DEF Waiting
  <2>3. CASE wish # <<>>
    <3>1. Len(<<>>) = l - k
      BY <1>2, <1>3, <2>1, <2>3 DEF Waiting
    <3>2. QED
      BY <2>1, <3>1
  <2>4. QED
    BY <2>2, <2>3
<1>5. \A key : AskedOf(wish, Len(wish), key) = Asked(key)
  BY DEF AskedOf, Asked
<1>6. DOMAIN opts = Keys /\ \A key \in Keys : opts[key] = Asked(key)
  BY <1>2, <1>4, <1>5 DEF Asks
<1>7. "s" \in Keys
  BY KeysFacts
<1>8. /\ \A key \in Keys \ {"s"} : opts'[key] = opts[key]
      /\ opts'["s"] = Chosen(opts["s"])
  BY <1>3, <1>6, <1>7
<1>9. /\ \A key \in Keys \ {"s"} : opts'[key] = Asked(key)
      /\ opts'["s"] = Chosen(Asked("s"))
  BY <1>6, <1>7, <1>8
<1>10. Asked("s")' = Asked("s") /\ \A key : Asked(key)' = Asked(key)
  BY <1>3 DEF Asked
<1>11. \A role : Chosen(role)' = Chosen(role)
  BY <1>3 DEF Chosen
<1>12. Obeyed(opts)'
  BY <1>9, <1>10, <1>11, <1>3 DEF Obeyed, Chosen
<1>13. QED
  BY <1>3, <1>12 DEF TextInv, FreshInv, ReadInv, ApplyInv, ChosenInv, ToldInv

LEMMA TextSip003Step ==
  ASSUME TextInv, Sip003
  PROVE  TextInv'
<1>1. /\ Obeyed(opts) /\ pc' \in {"running", "error"} /\ wish' = wish /\ flags' = flags
  BY DEF Sip003, TextInv, ChosenInv
<1>2. CASE pc' = "error"
  BY <1>2 DEF TextInv, FreshInv, ReadInv, ApplyInv, ChosenInv, ToldInv
<1>3. CASE pc' = "running"
  <2>1. PICK lf, rf \in Forms :
          Runs(opts.s, opts, [at |-> "local", form |-> lf], [at |-> "remote", form |-> rf])
    BY <1>3 DEF Sip003
  <2>2. /\ run'.opts = opts /\ run'.role = opts.s
        /\ run'.listen = IF opts.s = "client" THEN [at |-> "local", form |-> lf]
                                              ELSE [at |-> "remote", form |-> rf]
    BY <2>1 DEF Runs
  <2>3. run'.listen.at = IF run'.role = "client" THEN "local" ELSE "remote"
    BY <2>2
  <2>4. Obeyed(run.opts)'
    BY <1>1, <2>2 DEF Obeyed, Asked, Chosen
  <2>5. QED
    BY <1>3, <2>3, <2>4 DEF TextInv, FreshInv, ReadInv, ApplyInv, ChosenInv, ToldInv
<1>4. QED
  BY <1>1, <1>2, <1>3

LEMMA TextStep == ConfigInv /\ TextInv /\ [Next]_vars => TextInv'
<1> SUFFICES ASSUME ConfigInv, TextInv, [Next]_vars PROVE TextInv'
  OBVIOUS
<1>1. CASE UNCHANGED vars
  <2>1. /\ pc' = pc /\ flags' = flags /\ wish' = wish /\ raw' = raw /\ at' = at
        /\ current' = current /\ entries' = entries /\ opts' = opts /\ run' = run
    BY <1>1 DEF vars, scanVars
  <2>2. FreshInv' /\ ReadInv' /\ ApplyInv'
    BY <2>1 DEF TextInv, FreshInv, ReadInv, ApplyInv
  <2>3. ChosenInv'
    BY <2>1 DEF TextInv, ChosenInv, Obeyed, Asked, Chosen
  <2>4. ToldInv'
    BY <2>1 DEF TextInv, ToldInv, Obeyed, Asked, Chosen
  <2>5. QED
    BY <2>2, <2>3, <2>4 DEF TextInv
<1>2. CASE Next
  BY <1>2, TextArgSteps, TextFileStep, TextReadStep, TextScanStep, TextEndStep, TextApplyStep,
     TextValidateStep, TextSip003Step DEF Next
<1>3. QED
  BY <1>1, <1>2

LEMMA TextAlways == Spec => []TextInv
BY TextInit, TextStep, ConfigAlways, PTL DEF Spec

(* For all settings, whatever characters their values have, blanks within  *)
(* included, with blanks or none around them and "=" escaped or not: what  *)
(* split_entries and apply_entry make of the text composed from them is,   *)
(* for every option, its last setting that has a value, or the default.    *)
THEOREM ConfigOptionsAsWritten == Spec => []OptionsAsWritten
<1>1. TextInv => OptionsAsWritten
  BY DEF TextInv, ToldInv, Obeyed, OptionsAsWritten, Running
<1>2. QED
  BY <1>1, TextAlways, PTL

(* The process takes the role and listens at the address it was told to:   *)
(* from a config file, also when the flag turns it around, and from        *)
(* plugin_opts, whose role survives the text as every option does.         *)
THEOREM ConfigStartsAsTold == Spec => []StartsAsTold
<1>1. ConfigInv /\ TextInv => StartsAsTold
  <2> SUFFICES ASSUME ConfigInv, TextInv, Running PROVE StartsAsTold
    BY DEF StartsAsTold
  <2>1. RoleInv /\ run.opts.s = run.role
    BY DEF ConfigInv, RoleInv, Running
  <2>2. CASE flags.config
    BY <2>1, <2>2 DEF RoleInv, StartsAsTold, Running
  <2>3. CASE ~flags.config
    <3>1. /\ run.role = Chosen(Asked("s"))
          /\ run.listen.at = IF run.role = "client" THEN "local" ELSE "remote"
      BY <2>1, <2>3 DEF TextInv, ToldInv, Obeyed, Running
    <3>2. QED
      BY <2>1, <2>3, <3>1 DEF StartsAsTold
  <2>4. QED
    BY <2>2, <2>3
<1>2. QED
  BY <1>1, ConfigAlways, TextAlways, PTL
=============================================================================
