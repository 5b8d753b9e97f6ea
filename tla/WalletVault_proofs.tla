------------------------- MODULE WalletVault_proofs -------------------------
(***************************************************************************)
(* Proofs that wallets, the passphrase and the settings survive whatever   *)
(* else runs and dies, as long as no two commands met in the file, for any *)
(* number of processes and any names, passphrases and command lines.       *)
(***************************************************************************)
EXTENDS WalletVault, TLAPS

WalletSteps == {"walletOpen", "walletWrite"}
PassSteps == {"passOpen", "passWrite"}
ConfigSteps == {"configOpen", "configWrite"}
Creating == {"exists", "secret", "ensure", "passOpen", "passWrite", "save"} \cup WalletSteps

\* What a command of each kind may be doing, and what it has to show for it.
StepFits(c) ==
  /\ c.step \in Creating => c.job.kind \in {"create", "createEth", "init"}
  /\ c.step \in {"config"} \cup ConfigSteps => c.job.kind \in {"init", "default", "set"}
  /\ c.step \in {"account", "unlock"} => c.job.kind = "open"
  /\ c.step = "load" => c.job.kind \in {"open", "default"}
  /\ c.loaded.from = "file" => c.step \in {"unlock", "done", "dead"}
  /\ c.step = "done" /\ c.result = "saved" =>
       c.job.kind \in {"create", "createEth", "init"} /\ c.job.name # ""

StepInv == \A p \in Commands : StepFits(cmd[p])

\* The wallet of a command is in its file.
HasSaved(c) == \/ c.step = "done" /\ c.result = "saved"
               \/ c.step \in {"config"} \cup ConfigSteps /\ c.job.kind = "init"

\* Between looking for the file and filling it a command is alone with it, and finds
\* what it left; nobody touches a wallet that was saved.
WalletInv ==
  /\ \A p, q \in Commands :
       (p # q /\ cmd[p].step \in WalletSteps /\ cmd[q].step \in WalletSteps /\ Mine(p) = Mine(q))
         => Mine(p) \in raced
  /\ \A p \in Commands :
       (cmd[p].step \in WalletSteps \/ HasSaved(cmd[p])) /\ Mine(p) \notin raced =>
       /\ At(p, "walletOpen") => wallets[Mine(p)].state = "absent"
       /\ At(p, "walletWrite") => wallets[Mine(p)].state = "empty"
       /\ HasSaved(cmd[p]) => wallets[Mine(p)] = Saved(p)

\* Once a passphrase was taken from the file the file is never opened for writing again.
PassInv ==
  /\ \A p, q \in Commands :
       (p # q /\ cmd[p].step \in PassSteps /\ cmd[q].step \in PassSteps) => <<"pass">> \in raced
  /\ <<"pass">> \notin raced => \A p \in Commands :
       /\ cmd[p].step \in PassSteps => pass.state # "whole"
       /\ cmd[p].from = "file" => pass = [state |-> "whole", secret |-> cmd[p].secret]
       /\ cmd[p].loaded.from = "file" => pass = [state |-> "whole", secret |-> cmd[p].loaded.secret]

\* A command that has set its key, which nobody else sets.
HasSet(p) == /\ Writing(p) /\ At(p, "done") /\ cmd[p].result \in {"saved", "set"}
             /\ \A q \in Commands \ {p} : Writing(q) => cmd[q].job.key # cmd[p].job.key

\* What was set is in the file or, while that is being rewritten, with the one that does.
ConfigInv ==
  /\ \A p, q \in Commands :
       (p # q /\ cmd[p].step \in ConfigSteps /\ cmd[q].step \in ConfigSteps) => <<"config">> \in raced
  /\ <<"config">> \notin raced => \A p \in Commands : HasSet(p) =>
       /\ (\A q \in Commands : ~At(q, "configWrite")) =>
            config.state = "whole" /\ config.settings[cmd[p].job.key] = cmd[p].job.name
       /\ \A q \in Commands : cmd[q].step \in ConfigSteps =>
            cmd[q].read[cmd[p].job.key] = cmd[p].job.name

IInv == TypeOK /\ StepInv /\ WalletInv /\ PassInv /\ PassphraseKept /\ FileWalletOpens /\ ConfigInv
-----------------------------------------------------------------------------
(* Types                                                                   *)

\* The part of TypeOK that is about the commands.
CmdOK == /\ cmd \in [Commands -> Command]
         /\ \A p \in Commands :
              cmd[p].job.name = "" => cmd[p].step \in {"idle", "account", "done", "dead"}

\* A command changes its own record and nobody else's.
LEMMA Became ==
  ASSUME TypeOK, NEW p \in Commands, NEW c, Become(p, c)
  PROVE  cmd'[p] = c /\ \A q \in Commands \ {p} : cmd'[q] = cmd[q]
  BY DEF TypeOK, Become

LEMMA BecomeOK ==
  ASSUME TypeOK, NEW p \in Commands, NEW c \in Command, Become(p, c),
         c.job.name = "" => c.step \in {"idle", "account", "done", "dead"}
  PROVE  CmdOK'
<1>1. cmd' \in [Commands -> Command]
  BY DEF TypeOK, Become
<1>2. ASSUME NEW q \in Commands
      PROVE  cmd'[q].job.name = "" => cmd'[q].step \in {"idle", "account", "done", "dead"}
  BY Became DEF TypeOK
<1> QED
  BY <1>1, <1>2 DEF CmdOK

LEMMA GotoOK ==
  ASSUME TypeOK, NEW p \in Commands, NEW step \in Steps, Goto(p, step),
         cmd[p].job.name # "" \/ step \in {"account", "done", "dead"}
  PROVE  CmdOK'
<1> DEFINE c == [cmd[p] EXCEPT !.step = step]
<1>1. cmd[p] \in Command
  BY DEF TypeOK
<1>2. c \in Command /\ c.job = cmd[p].job /\ c.step = step
  BY <1>1 DEF Command
<1>3. Become(p, c)
  BY DEF Goto
<1> HIDE DEF c
<1> QED
  BY <1>2, <1>3, BecomeOK

LEMMA FinishOK ==
  ASSUME TypeOK, NEW p \in Commands, NEW result \in Results, Finish(p, result)
  PROVE  CmdOK'
<1> DEFINE c == [cmd[p] EXCEPT !.step = "done", !.result = result]
<1>1. cmd[p] \in Command
  BY DEF TypeOK
<1>2. c \in Command /\ c.step = "done"
  BY <1>1 DEF Command, Steps
<1>3. Become(p, c)
  BY DEF Finish
<1> HIDE DEF c
<1> QED
  BY <1>2, <1>3, BecomeOK

LEMMA WithSecretOK ==
  ASSUME TypeOK, NEW p \in Commands, NEW secret \in Passphrases, NEW from \in {"file", "user", ""},
         WithSecret(p, secret, from), cmd[p].job.name # ""
  PROVE  CmdOK'
<1> DEFINE c == [cmd[p] EXCEPT !.step = "save", !.secret = secret, !.from = from]
<1>1. cmd[p] \in Command
  BY DEF TypeOK
<1>2. c \in Command /\ c.job = cmd[p].job
  BY <1>1 DEF Command, Steps
<1>3. Become(p, c)
  BY DEF WithSecret
<1> HIDE DEF c
<1> QED
  BY <1>2, <1>3, BecomeOK

\* A command that has a name has a file.
LEMMA PathType ==
  ASSUME NEW j \in Job, j.name # ""
  PROVE  Path(j) \in Paths
  BY VaultAssumption DEF Job, Path, Paths, Chains

\* What a command that is under way reads is of its type.
LEMMA ReadType ==
  ASSUME TypeOK, NEW p \in Commands
  PROVE  /\ cmd[p] \in Command /\ cmd[p].job \in Job
         /\ cmd[p].step \notin {"idle", "account", "done", "dead"} =>
              cmd[p].job.name # "" /\ Mine(p) \in Paths /\ wallets[Mine(p)] \in WalletFile
         /\ pass.secret \in Passphrases
         /\ Settings \in [Keys -> Names \cup {""}]
<1>1. cmd[p] \in Command /\ cmd[p].job \in Job
  BY DEF TypeOK, Command
<1>2. cmd[p].step \notin {"idle", "account", "done", "dead"} => cmd[p].job.name # ""
  BY DEF TypeOK
<1>3. cmd[p].job.name # "" => Mine(p) \in Paths
  BY <1>1, PathType DEF Mine
<1>4. Mine(p) \in Paths => wallets[Mine(p)] \in WalletFile
  BY DEF TypeOK
<1>5. pass.secret \in Passphrases
  BY DEF TypeOK, PassFile
<1>6. Settings \in [Keys -> Names \cup {""}]
  BY DEF TypeOK, ConfigFile, Settings, NoSettings
<1> QED
  BY <1>1, <1>2, <1>3, <1>4, <1>5, <1>6

LEMMA RaceType ==
  ASSUME TypeOK, NEW file \in Paths \cup {<<"pass">>, <<"config">>}, NEW rivals, Race(file, rivals)
  PROVE  raced' \subseteq Paths \cup {<<"pass">>, <<"config">>}
  BY DEF TypeOK, Race

LEMMA InitType == Init => TypeOK
<1> SUFFICES ASSUME Init
             PROVE  TypeOK
  OBVIOUS
<1>1. NoFile \in WalletFile
  BY DEF NoFile, WalletFile, FileStates, Passphrases
<1>2. wallets \in [Paths -> WalletFile]
  BY <1>1 DEF Init
<1>3. pass \in PassFile
  <2>1. CASE pass = [state |-> "absent", secret |-> ""]
    BY <2>1 DEF PassFile, FileStates, Passphrases
  <2>2. CASE pass \in [state : {"whole"}, secret : Secrets]
    BY <2>2 DEF PassFile, FileStates, Passphrases
  <2> QED
    BY <2>1, <2>2 DEF Init
<1>4. NoSettings \in [Keys -> Names \cup {""}]
  BY DEF NoSettings
<1>5. config \in ConfigFile
  BY <1>4 DEF Init, ConfigFile, FileStates
<1>6. NoJob \in Job
  BY DEF NoJob, Job, Kinds, Chains, Keys
<1>7. cmd \in [Commands -> Command]
  <2> DEFINE c == [step |-> "idle", job |-> NoJob, secret |-> "", from |-> "",
                   loaded |-> NoFile, read |-> NoSettings, result |-> ""]
  <2>1. c \in Command
    BY <1>1, <1>4, <1>6 DEF Command, Steps, Results, Passphrases
  <2> HIDE DEF c
  <2> QED
    BY <2>1 DEF Init, c
<1> QED
  BY <1>2, <1>3, <1>5, <1>7 DEF Init, TypeOK

(* One lemma per group of steps: what a step leaves is of its type.        *)

LEMMA BeginType ==
  ASSUME TypeOK, NEW p \in Commands, Begin(p)
  PROVE  TypeOK'
<1>1. PICK j \in Jobs : Become(p, [cmd[p] EXCEPT !.step = FirstStep(j), !.job = j])
  BY DEF Begin
<1> DEFINE c == [cmd[p] EXCEPT !.step = FirstStep(j), !.job = j]
<1>2. j \in Job /\ (j.name = "" => j.kind = "open")
  BY VaultAssumption
<1>3. FirstStep(j) \in Steps /\ (j.name = "" => FirstStep(j) = "account")
  BY <1>2 DEF FirstStep, Steps
<1>4. c \in Command /\ c.job = j /\ c.step = FirstStep(j)
  BY <1>2, <1>3, ReadType DEF Command
<1>5. Become(p, c)
  BY <1>1
<1> HIDE DEF c
<1>6. CmdOK'
  BY <1>3, <1>4, <1>5, BecomeOK
<1> QED
  BY <1>6 DEF Begin, TypeOK, CmdOK

LEMMA SecretType ==
  ASSUME TypeOK, NEW p \in Commands, Exists(p) \/ Secret(p) \/ Ensure(p)
  PROVE  TypeOK'
<1> DEFINE j == cmd[p].job
<1>1. /\ cmd[p] \in Command /\ j \in Job /\ j.name # "" /\ pass.secret \in Passphrases
      /\ j.flag \in Passphrases /\ j.env \in Passphrases
  <2>1. cmd[p].step \in {"exists", "secret", "ensure"}
    BY DEF Exists, Secret, Ensure, At
  <2> QED
    BY <2>1, ReadType DEF Job, Passphrases
<1>2. ASSUME NEW step \in {"secret", "ensure", "passOpen"}, Goto(p, step)
      PROVE  CmdOK'
  BY <1>1, <1>2, GotoOK DEF Steps
<1>3. ASSUME NEW result \in {"INVALID_WALLET_NAME", "WALLET_EXISTS", "NO_PASSPHRASE"}, Finish(p, result)
      PROVE  CmdOK'
  BY <1>3, FinishOK DEF Results
<1>4. ASSUME NEW secret \in {j.flag, j.env, pass.secret}, NEW from \in {"file", "user"},
             WithSecret(p, secret, from)
      PROVE  CmdOK'
  BY <1>1, <1>4, WithSecretOK
<1>5. CASE Exists(p)
  <2>1. CmdOK'
    BY <1>2, <1>3, <1>4, <1>5 DEF Exists
  <2> QED
    BY <1>5, <2>1 DEF Exists, TypeOK, CmdOK
<1>6. CASE Secret(p)
  <2>1. CmdOK'
    BY <1>2, <1>4, <1>6 DEF Secret
  <2> QED
    BY <1>6, <2>1 DEF Secret, TypeOK, CmdOK
<1>7. CASE Ensure(p)
  <2>1. CmdOK'
    BY <1>2, <1>4, <1>7 DEF Ensure
  <2>2. raced' \subseteq Paths \cup {<<"pass">>, <<"config">>}
    BY <1>7, RaceType DEF Ensure, TypeOK
  <2> QED
    BY <1>7, <2>1, <2>2 DEF Ensure, TypeOK, CmdOK
<1> QED
  BY <1>5, <1>6, <1>7

LEMMA PassType ==
  ASSUME TypeOK, NEW p \in Commands, PassOpen(p) \/ PassWrite(p)
  PROVE  TypeOK'
<1>1. cmd[p].job.name # ""
  BY ReadType DEF PassOpen, PassWrite, At
<1>2. CASE PassOpen(p)
  <2>1. CmdOK'
    BY <1>1, <1>2, GotoOK DEF PassOpen, Steps
  <2>2. pass' \in PassFile
    BY <1>2 DEF PassOpen, PassFile, FileStates, Passphrases
  <2> QED
    BY <1>2, <2>1, <2>2 DEF PassOpen, TypeOK, CmdOK
<1>3. CASE PassWrite(p)
  <2>1. CmdOK'
    BY <1>1, <1>3, WithSecretOK DEF PassWrite, Passphrases
  <2>2. pass' \in PassFile
    BY <1>3 DEF PassWrite, PassFile, FileStates, Passphrases
  <2> QED
    BY <1>3, <2>1, <2>2 DEF PassWrite, TypeOK, CmdOK
<1> QED
  BY <1>2, <1>3

LEMMA WalletType ==
  ASSUME TypeOK, NEW p \in Commands, Save(p) \/ WalletOpen(p) \/ WalletWrite(p)
  PROVE  TypeOK'
<1>1. cmd[p] \in Command /\ cmd[p].job.name # "" /\ Mine(p) \in Paths
  <2>1. cmd[p].step \in {"save", "walletOpen", "walletWrite"}
    BY DEF Save, WalletOpen, WalletWrite, At
  <2> QED
    BY <2>1, ReadType
<1>2. CASE Save(p)
  <2>1. CmdOK'
    BY <1>1, <1>2, GotoOK, FinishOK DEF Save, Steps, Results
  <2>2. raced' \subseteq Paths \cup {<<"pass">>, <<"config">>}
    BY <1>1, <1>2, RaceType DEF Save, TypeOK
  <2> QED
    BY <1>2, <2>1, <2>2 DEF Save, TypeOK, CmdOK
<1>3. CASE WalletOpen(p)
  <2>1. CmdOK'
    BY <1>1, <1>3, GotoOK DEF WalletOpen, Steps
  <2>2. [state |-> "empty", key |-> "", secret |-> "", from |-> ""] \in WalletFile
    BY DEF WalletFile, FileStates, Passphrases
  <2>3. wallets' \in [Paths -> WalletFile]
    BY <1>3, <2>2 DEF WalletOpen, TypeOK
  <2> QED
    BY <1>3, <2>1, <2>3 DEF WalletOpen, TypeOK, CmdOK
<1>4. CASE WalletWrite(p)
  <2>1. CmdOK'
    BY <1>1, <1>4, GotoOK, FinishOK DEF WalletWrite, Steps, Results
  <2>2. Saved(p) \in WalletFile
    BY <1>1 DEF Saved, WalletFile, FileStates, Command
  <2>3. wallets' \in [Paths -> WalletFile]
    BY <1>4, <2>2 DEF WalletWrite, TypeOK
  <2> QED
    BY <1>4, <2>1, <2>3 DEF WalletWrite, TypeOK, CmdOK
<1> QED
  BY <1>2, <1>3, <1>4

LEMMA ConfigType ==
  ASSUME TypeOK, NEW p \in Commands, ReadConfig(p) \/ ConfigOpen(p) \/ ConfigWrite(p)
  PROVE  TypeOK'
<1>1. cmd[p] \in Command /\ cmd[p].job \in Job /\ cmd[p].job.name # ""
  <2>1. cmd[p].step \in {"config", "configOpen", "configWrite"}
    BY DEF ReadConfig, ConfigOpen, ConfigWrite, At
  <2> QED
    BY <2>1, ReadType
<1>2. CASE ReadConfig(p)
  <2> DEFINE c == [cmd[p] EXCEPT !.step = "configOpen", !.read = Settings]
  <2>1. c \in Command /\ c.job = cmd[p].job
    BY <1>1, ReadType DEF Command, Steps
  <2>2. Become(p, c)
    BY <1>2 DEF ReadConfig
  <2> HIDE DEF c
  <2>3. CmdOK'
    BY <1>1, <2>1, <2>2, BecomeOK
  <2>4. raced' \subseteq Paths \cup {<<"pass">>, <<"config">>}
    BY <1>2, RaceType DEF ReadConfig
  <2> QED
    BY <1>2, <2>3, <2>4 DEF ReadConfig, TypeOK, CmdOK
<1>3. CASE ConfigOpen(p)
  <2>1. CmdOK'
    BY <1>1, <1>3, GotoOK DEF ConfigOpen, Steps
  <2>2. config' \in ConfigFile
    BY <1>3 DEF ConfigOpen, ConfigFile, FileStates, NoSettings
  <2> QED
    BY <1>3, <2>1, <2>2 DEF ConfigOpen, TypeOK, CmdOK
<1>4. CASE ConfigWrite(p)
  <2>1. CmdOK'
    BY <1>4, FinishOK DEF ConfigWrite, Results
  <2>2. Updated(cmd[p].read, cmd[p].job) \in [Keys -> Names \cup {""}]
    BY <1>1 DEF Updated, Command, Job
  <2>3. config' \in ConfigFile
    BY <1>4, <2>2 DEF ConfigWrite, ConfigFile, FileStates
  <2> QED
    BY <1>4, <2>1, <2>3 DEF ConfigWrite, TypeOK, CmdOK
<1> QED
  BY <1>2, <1>3, <1>4

LEMMA OpenType ==
  ASSUME TypeOK, NEW p \in Commands, Account(p) \/ Load(p) \/ Unlock(p)
  PROVE  TypeOK'
<1>1. cmd[p] \in Command /\ cmd[p].job \in Job
  BY ReadType
<1>2. CASE Account(p)
  <2>1. ASSUME NEW n \in Names, Become(p, [cmd[p] EXCEPT !.step = "load", !.job.name = n])
        PROVE  CmdOK'
    <3> DEFINE c == [cmd[p] EXCEPT !.step = "load", !.job.name = n]
               j == [cmd[p].job EXCEPT !.name = n]
    <3>1. c \in Command /\ c.job.name = n /\ n # ""
      <4>1. c = [cmd[p] EXCEPT !.step = "load", !.job = j]
        BY <1>1 DEF Command
      <4>2. j \in Job /\ j.name = n /\ n # ""
        BY <1>1, VaultAssumption DEF Job
      <4> HIDE DEF c, j
      <4> QED
        BY <1>1, <4>1, <4>2 DEF Command, Steps
    <3>2. Become(p, c)
      BY <2>1
    <3> HIDE DEF c
    <3> QED
      BY <3>1, <3>2, BecomeOK
  <2>2. ASSUME NEW result \in {"NO_ACCOUNT", "INVALID_WALLET_NAME"}, Finish(p, result)
        PROVE  CmdOK'
    BY <2>2, FinishOK DEF Results
  <2>3. Settings["vara"] \in Names \cup {""} /\ Settings[cmd[p].job.chain] \in Names \cup {""}
    BY <1>1, ReadType DEF Keys, Chains, Job
  <2>4. CmdOK'
    BY <1>2, <2>1, <2>2, <2>3 DEF Account
  <2> QED
    BY <1>2, <2>4 DEF Account, TypeOK, CmdOK
<1>3. CASE Load(p)
  <2>1. cmd[p].job.name # "" /\ wallets[Mine(p)] \in WalletFile
    BY <1>3, ReadType DEF Load, At
  <2>2. ASSUME NEW result \in {"INVALID_WALLET_NAME", "WALLET_NOT_FOUND", "WALLET_CORRUPTED"},
               Finish(p, result)
        PROVE  CmdOK'
    BY <2>2, FinishOK DEF Results
  <2>3. ASSUME Goto(p, "config")
        PROVE  CmdOK'
    BY <2>1, <2>3, GotoOK DEF Steps
  <2>4. ASSUME Become(p, [cmd[p] EXCEPT !.step = "unlock", !.loaded = wallets[Mine(p)]])
        PROVE  CmdOK'
    <3> DEFINE c == [cmd[p] EXCEPT !.step = "unlock", !.loaded = wallets[Mine(p)]]
    <3>1. c \in Command /\ c.job = cmd[p].job
      BY <1>1, <2>1 DEF Command, Steps
    <3>2. Become(p, c)
      BY <2>4
    <3> HIDE DEF c
    <3> QED
      BY <2>1, <3>1, <3>2, BecomeOK
  <2>5. CmdOK'
    BY <1>3, <2>2, <2>3, <2>4 DEF Load
  <2> QED
    BY <1>3, <2>5 DEF Load, TypeOK, CmdOK
<1>4. CASE Unlock(p)
  <2>1. CmdOK'
    BY <1>4, FinishOK DEF Unlock, Results
  <2> QED
    BY <1>4, <2>1 DEF Unlock, TypeOK, CmdOK
<1> QED
  BY <1>2, <1>3, <1>4

LEMMA CrashType ==
  ASSUME TypeOK, NEW p \in Commands, Crash(p)
  PROVE  TypeOK'
<1>1. CmdOK'
  BY GotoOK DEF Crash, Steps
<1> QED
  BY <1>1 DEF Crash, TypeOK, CmdOK

LEMMA StepType == TypeOK /\ [Next]_vars => TypeOK'
<1> SUFFICES ASSUME TypeOK, [Next]_vars
             PROVE  TypeOK'
  OBVIOUS
<1>1. CASE UNCHANGED vars
  BY <1>1 DEF vars, TypeOK
<1>2. CASE Next
  BY <1>2, BeginType, CrashType, SecretType, PassType, WalletType, ConfigType, OpenType DEF Next
<1> QED
  BY <1>1, <1>2

\* Files, settings and processes keep their types, and no command reaches a file without a name.
THEOREM VaultTypes == Spec => []TypeOK
  BY InitType, StepType, PTL DEF Spec
-----------------------------------------------------------------------------
(* What a command is doing                                                 *)

\* What a step leaves of a command's record: all but the parts it sets.
LEMMA GotoIs ==
  ASSUME TypeOK, NEW p \in Commands, NEW step, Goto(p, step)
  PROVE  /\ cmd'[p].step = step /\ cmd'[p].job = cmd[p].job
         /\ cmd'[p].secret = cmd[p].secret /\ cmd'[p].from = cmd[p].from
         /\ cmd'[p].loaded = cmd[p].loaded /\ cmd'[p].read = cmd[p].read
         /\ cmd'[p].result = cmd[p].result
         /\ \A q \in Commands \ {p} : cmd'[q] = cmd[q]
<1>1. cmd[p] \in Command /\ Become(p, [cmd[p] EXCEPT !.step = step])
  BY ReadType DEF Goto
<1> QED
  BY <1>1 DEF Become, Command, TypeOK

LEMMA FinishIs ==
  ASSUME TypeOK, NEW p \in Commands, NEW result \in Results, Finish(p, result)
  PROVE  /\ cmd'[p].step = "done" /\ cmd'[p].job = cmd[p].job
         /\ cmd'[p].secret = cmd[p].secret /\ cmd'[p].from = cmd[p].from
         /\ cmd'[p].loaded = cmd[p].loaded /\ cmd'[p].read = cmd[p].read
         /\ cmd'[p].result = result
         /\ \A q \in Commands \ {p} : cmd'[q] = cmd[q]
<1>1. cmd[p] \in Command /\ Become(p, [cmd[p] EXCEPT !.step = "done", !.result = result])
  BY ReadType DEF Finish
<1> QED
  BY <1>1 DEF Become, Command, TypeOK

LEMMA SaveIs ==
  ASSUME TypeOK, NEW p \in Commands, Save(p)
  PROVE  /\ cmd[p].step = "save" /\ cmd'[p].job = cmd[p].job /\ cmd'[p].loaded = cmd[p].loaded
         /\ \/ cmd'[p].step = "walletOpen"
            \/ cmd'[p].step = "done" /\ cmd'[p].result = "WALLET_EXISTS"
<1>1. cmd[p].step = "save" /\ (Goto(p, "walletOpen") \/ Finish(p, "WALLET_EXISTS"))
  BY DEF Save, At
<1>2. "WALLET_EXISTS" \in Results
  BY DEF Results
<1> QED
  BY <1>1, <1>2, GotoIs, FinishIs

LEMMA WithSecretIs ==
  ASSUME TypeOK, NEW p \in Commands, NEW secret, NEW from, WithSecret(p, secret, from)
  PROVE  /\ cmd'[p].step = "save" /\ cmd'[p].job = cmd[p].job
         /\ cmd'[p].secret = secret /\ cmd'[p].from = from
         /\ cmd'[p].loaded = cmd[p].loaded /\ cmd'[p].read = cmd[p].read
         /\ cmd'[p].result = cmd[p].result
         /\ \A q \in Commands \ {p} : cmd'[q] = cmd[q]
<1>1. cmd[p] \in Command
      /\ Become(p, [cmd[p] EXCEPT !.step = "save", !.secret = secret, !.from = from])
  BY ReadType DEF WithSecret
<1> QED
  BY <1>1 DEF Become, Command, TypeOK

LEMMA ReadConfigIs ==
  ASSUME TypeOK, NEW p \in Commands, ReadConfig(p)
  PROVE  /\ cmd'[p].step = "configOpen" /\ cmd'[p].job = cmd[p].job
         /\ cmd'[p].secret = cmd[p].secret /\ cmd'[p].from = cmd[p].from
         /\ cmd'[p].loaded = cmd[p].loaded /\ cmd'[p].read = Settings
         /\ cmd'[p].result = cmd[p].result
         /\ \A q \in Commands \ {p} : cmd'[q] = cmd[q]
<1>1. cmd[p] \in Command
      /\ Become(p, [cmd[p] EXCEPT !.step = "configOpen", !.read = Settings])
  BY ReadType DEF ReadConfig
<1> QED
  BY <1>1 DEF Become, Command, TypeOK

LEMMA BeginIs ==
  ASSUME TypeOK, NEW p \in Commands, Begin(p)
  PROVE  /\ cmd'[p].job \in Jobs /\ cmd'[p].step = FirstStep(cmd'[p].job)
         /\ cmd'[p].secret = cmd[p].secret /\ cmd'[p].from = cmd[p].from
         /\ cmd'[p].loaded = cmd[p].loaded /\ cmd'[p].read = cmd[p].read
         /\ cmd'[p].result = cmd[p].result
         /\ \A q \in Commands \ {p} : cmd'[q] = cmd[q]
<1>1. PICK j \in Jobs : Become(p, [cmd[p] EXCEPT !.step = FirstStep(j), !.job = j])
  BY DEF Begin
<1>2. cmd[p] \in Command
  BY ReadType
<1> QED
  BY <1>1, <1>2 DEF Become, Command, TypeOK

\* Opening a wallet: a name is found, a file is read, or the command goes on or ends.
LEMMA AccountIs ==
  ASSUME TypeOK, NEW p \in Commands, Account(p)
  PROVE  /\ cmd'[p].step \in {"load", "done"} /\ cmd'[p].job.kind = cmd[p].job.kind
         /\ cmd'[p].secret = cmd[p].secret /\ cmd'[p].from = cmd[p].from
         /\ cmd'[p].loaded = cmd[p].loaded /\ cmd'[p].read = cmd[p].read
         /\ cmd'[p].step = "done" => cmd'[p].result \in {"NO_ACCOUNT", "INVALID_WALLET_NAME"}
         /\ \A q \in Commands \ {p} : cmd'[q] = cmd[q]
<1>1. cmd[p] \in Command /\ cmd[p].job \in Job
  BY ReadType
<1>2. CASE \E result \in {"NO_ACCOUNT", "INVALID_WALLET_NAME"} : Finish(p, result)
  BY <1>2, FinishIs DEF Results
<1>3. CASE \E n : Become(p, [cmd[p] EXCEPT !.step = "load", !.job.name = n])
  <2>1. PICK n : Become(p, [cmd[p] EXCEPT !.step = "load", !.job.name = n])
    BY <1>3
  <2> QED
    BY <1>1, <2>1 DEF Become, Command, TypeOK, Job
<1> QED
  BY <1>2, <1>3 DEF Account

LEMMA LoadIs ==
  ASSUME TypeOK, NEW p \in Commands, Load(p)
  PROVE  /\ cmd'[p].job = cmd[p].job
         /\ cmd'[p].secret = cmd[p].secret /\ cmd'[p].from = cmd[p].from
         /\ cmd'[p].read = cmd[p].read
         /\ \/ /\ cmd'[p].step = "unlock" /\ cmd'[p].loaded = wallets[Mine(p)]
               /\ wallets[Mine(p)] \in WalletFile /\ cmd[p].job.kind # "default"
            \/ /\ cmd'[p].step = "config" /\ cmd'[p].loaded = cmd[p].loaded
               /\ cmd[p].job.kind = "default"
            \/ /\ cmd'[p].step = "done" /\ cmd'[p].loaded = cmd[p].loaded
               /\ cmd'[p].result \notin {"saved", "set"}
         /\ \A q \in Commands \ {p} : cmd'[q] = cmd[q]
<1>1. cmd[p] \in Command /\ wallets[Mine(p)] \in WalletFile
  BY ReadType DEF Load, At
<1>2. CASE \E result \in {"INVALID_WALLET_NAME", "WALLET_NOT_FOUND", "WALLET_CORRUPTED"} : Finish(p, result)
  BY <1>2, FinishIs DEF Results
<1>3. CASE Goto(p, "config") /\ cmd[p].job.kind = "default"
  BY <1>3, GotoIs
<1>4. CASE /\ Become(p, [cmd[p] EXCEPT !.step = "unlock", !.loaded = wallets[Mine(p)]])
           /\ cmd[p].job.kind # "default"
  BY <1>1, <1>4 DEF Become, Command, TypeOK
<1> QED
  BY <1>2, <1>3, <1>4 DEF Load

LEMMA UnlockIs ==
  ASSUME TypeOK, NEW p \in Commands, Unlock(p)
  PROVE  /\ cmd'[p].step = "done" /\ cmd'[p].job = cmd[p].job
         /\ cmd'[p].secret = cmd[p].secret /\ cmd'[p].from = cmd[p].from
         /\ cmd'[p].loaded = cmd[p].loaded /\ cmd'[p].read = cmd[p].read
         /\ cmd'[p].result \notin {"saved", "set"}
         /\ \A q \in Commands \ {p} : cmd'[q] = cmd[q]
<1> DEFINE j == cmd[p].job
           file == cmd[p].loaded
           native == resolvePassphrase(j.env)
           r == IF j.chain = "vara"
             THEN IF file.secret = "" THEN "opened"
                  ELSE IF native = "" THEN "PASSPHRASE_REQUIRED"
                  ELSE IF native = file.secret THEN "opened" ELSE "DECRYPT_FAILED"
             ELSE IF EthSecret(j) = file.secret THEN "opened"
                  ELSE IF EthSecret(j) = "" /\ pass.state = "absent" THEN "NO_PASSPHRASE"
                  ELSE "WRONG_PASSPHRASE"
<1>1. r \in Results /\ r \notin {"saved", "set"}
  BY DEF Results
<1>2. Finish(p, r)
  BY DEF Unlock
<1> HIDE DEF r
<1> QED
  BY <1>1, <1>2, FinishIs

\* Whatever process p does next.
Acts(p) == \/ Begin(p) \/ Crash(p)
           \/ Exists(p) \/ Secret(p) \/ Ensure(p) \/ PassOpen(p) \/ PassWrite(p)
           \/ Save(p) \/ WalletOpen(p) \/ WalletWrite(p)
           \/ ReadConfig(p) \/ ConfigOpen(p) \/ ConfigWrite(p)
           \/ Account(p) \/ Load(p) \/ Unlock(p)

LEMMA OthersKept ==
  ASSUME TypeOK, NEW p \in Commands, Acts(p)
  PROVE  \A q \in Commands \ {p} : cmd'[q] = cmd[q]
<1>1. CASE Crash(p) \/ PassOpen(p) \/ WalletOpen(p) \/ ConfigOpen(p)
  BY <1>1, GotoIs DEF Crash, PassOpen, WalletOpen, ConfigOpen
<1>2. CASE Exists(p)
  BY <1>2, GotoIs, FinishIs, WithSecretIs DEF Exists, Results
<1>3. CASE Secret(p) \/ Ensure(p) \/ PassWrite(p)
  BY <1>3, GotoIs, WithSecretIs DEF Secret, Ensure, PassWrite
<1>4. CASE Save(p) \/ WalletWrite(p) \/ ConfigWrite(p)
  BY <1>4, GotoIs, FinishIs DEF Save, WalletWrite, ConfigWrite, Results
<1> QED
  BY <1>1, <1>2, <1>3, <1>4, BeginIs, ReadConfigIs, AccountIs, LoadIs, UnlockIs DEF Acts

LEMMA InitSteps == Init => StepInv
<1> SUFFICES ASSUME Init, NEW p \in Commands
             PROVE  StepFits(cmd[p])
  BY DEF StepInv
<1>1. cmd[p].step = "idle" /\ cmd[p].loaded = NoFile
  BY DEF Init
<1>2. NoFile.from = ""
  BY DEF NoFile
<1> QED
  BY <1>1, <1>2 DEF StepFits, Creating, WalletSteps, ConfigSteps

LEMMA BeginFits ==
  ASSUME TypeOK, StepInv, NEW p \in Commands, Begin(p)
  PROVE  StepFits(cmd'[p])
<1> DEFINE j == cmd'[p].job
<1>1. j \in Jobs /\ j \in Job /\ cmd'[p].step = FirstStep(j) /\ cmd'[p].loaded = cmd[p].loaded
  BY BeginIs, VaultAssumption
<1>2. cmd[p].loaded.from # "file"
  BY DEF StepInv, StepFits, Begin, At
<1>3. /\ FirstStep(j) \in {"account", "load", "config", "exists", "secret", "save"}
      /\ FirstStep(j) = "account" => j.kind = "open"
      /\ FirstStep(j) = "load" => j.kind \in {"open", "default"}
      /\ FirstStep(j) = "config" => j.kind = "set"
      /\ FirstStep(j) \in {"exists", "secret", "save"} => j.kind \in {"create", "createEth", "init"}
  BY <1>1 DEF FirstStep, Job, Kinds
<1> QED
  BY <1>1, <1>2, <1>3 DEF StepFits, Creating, WalletSteps, ConfigSteps

\* A command that goes on takes the next step of its kind, and opens only what it read.
LEMMA StepsFit == TypeOK /\ StepInv /\ [Next]_vars => StepInv'
<1>1. ASSUME StepInv, UNCHANGED vars
      PROVE  StepInv'
  BY <1>1 DEF vars, StepInv
<1> SUFFICES ASSUME TypeOK, StepInv, NEW p \in Commands, Acts(p)
             PROVE  StepFits(cmd'[p])
  BY <1>1, OthersKept DEF StepInv, Next, Acts
<1>2. StepFits(cmd[p])
  BY DEF StepInv
<1>3. CASE Begin(p)
  BY <1>3, BeginFits
<1>4. CASE Crash(p)
  <2>1. cmd'[p].step = "dead"
    BY <1>4, GotoIs DEF Crash
  <2> QED
    BY <2>1 DEF StepFits, Creating, WalletSteps, ConfigSteps
<1>5. CASE Exists(p)
  <2>1. /\ cmd[p].step = "exists" /\ cmd'[p].job = cmd[p].job /\ cmd'[p].loaded = cmd[p].loaded
        /\ \/ cmd'[p].step \in {"secret", "save"}
           \/ cmd'[p].step = "done" /\ cmd'[p].result # "saved"
    <3>1. CASE \E result \in Results \ {"saved"} : Finish(p, result)
      BY <1>5, <3>1, FinishIs DEF Exists, At
    <3>2. CASE Goto(p, "secret") \/ \E secret, from : WithSecret(p, secret, from)
      BY <1>5, <3>2, GotoIs, WithSecretIs DEF Exists, At
    <3> QED
      BY <1>5, <3>1, <3>2 DEF Exists, Results
  <2> QED
    BY <1>2, <2>1 DEF StepFits, Creating, WalletSteps, ConfigSteps
<1>6. CASE Secret(p) \/ Ensure(p)
  <2>1. /\ cmd[p].step \in {"secret", "ensure"} /\ cmd'[p].job = cmd[p].job /\ cmd'[p].loaded = cmd[p].loaded
        /\ cmd'[p].step \in {"ensure", "passOpen", "save"}
    BY <1>6, GotoIs, WithSecretIs DEF Secret, Ensure, At
  <2> QED
    BY <1>2, <2>1 DEF StepFits, Creating, WalletSteps, ConfigSteps
<1>7. CASE PassOpen(p) \/ PassWrite(p)
  <2>1. /\ cmd[p].step \in {"passOpen", "passWrite"} /\ cmd'[p].job = cmd[p].job /\ cmd'[p].loaded = cmd[p].loaded
        /\ cmd'[p].step \in {"passWrite", "save"}
    <3>1. CASE PassOpen(p)
      BY <3>1, GotoIs DEF PassOpen, At
    <3>2. CASE PassWrite(p)
      BY <3>2, WithSecretIs DEF PassWrite, At
    <3> QED
      BY <1>7, <3>1, <3>2
  <2> QED
    BY <1>2, <2>1 DEF StepFits, Creating, WalletSteps, ConfigSteps
<1>8. CASE Save(p) \/ WalletOpen(p)
  <2>1. /\ cmd[p].step \in {"save", "walletOpen"} /\ cmd'[p].job = cmd[p].job /\ cmd'[p].loaded = cmd[p].loaded
        /\ \/ cmd'[p].step \in {"walletOpen", "walletWrite"}
           \/ cmd'[p].step = "done" /\ cmd'[p].result # "saved"
    <3>1. CASE Save(p)
      BY <3>1, SaveIs
    <3>2. CASE WalletOpen(p)
      BY <3>2, GotoIs DEF WalletOpen, At
    <3> QED
      BY <1>8, <3>1, <3>2
  <2> QED
    BY <1>2, <2>1 DEF StepFits, Creating, WalletSteps, ConfigSteps
<1>9. CASE WalletWrite(p)
  <2>1. /\ cmd[p].step = "walletWrite" /\ cmd'[p].job = cmd[p].job /\ cmd'[p].loaded = cmd[p].loaded
        /\ cmd[p].job.name # ""
        /\ \/ cmd'[p].step = "config" /\ cmd[p].job.kind = "init"
           \/ cmd'[p].step = "done"
    BY <1>9, GotoIs, FinishIs, ReadType DEF WalletWrite, At, Results
  <2> QED
    BY <1>2, <2>1 DEF StepFits, Creating, WalletSteps, ConfigSteps
<1>10. CASE ReadConfig(p) \/ ConfigOpen(p)
  <2>1. /\ cmd[p].step \in {"config", "configOpen"} /\ cmd'[p].job = cmd[p].job /\ cmd'[p].loaded = cmd[p].loaded
        /\ cmd'[p].step \in {"configOpen", "configWrite"}
    BY <1>10, GotoIs, ReadConfigIs DEF ReadConfig, ConfigOpen, At
  <2> QED
    BY <1>2, <2>1 DEF StepFits, Creating, WalletSteps, ConfigSteps
<1>11. CASE ConfigWrite(p)
  <2>1. /\ cmd[p].step = "configWrite" /\ cmd'[p].job = cmd[p].job /\ cmd'[p].loaded = cmd[p].loaded
        /\ cmd[p].job.name # "" /\ cmd'[p].step = "done"
        /\ cmd'[p].result = "saved" => cmd[p].job.kind = "init"
    BY <1>11, FinishIs, ReadType DEF ConfigWrite, At, Results
  <2> QED
    BY <1>2, <2>1 DEF StepFits, Creating, WalletSteps, ConfigSteps
<1>12. CASE Account(p) \/ Unlock(p)
  <2>1. /\ cmd[p].step \in {"account", "unlock"} /\ cmd'[p].job.kind = cmd[p].job.kind
        /\ cmd'[p].loaded = cmd[p].loaded
        /\ \/ cmd[p].step = "account" /\ cmd'[p].step = "load"
           \/ cmd'[p].step = "done" /\ cmd'[p].result # "saved"
    BY <1>12, AccountIs, UnlockIs DEF Account, Unlock, At
  <2> QED
    BY <1>2, <2>1 DEF StepFits, Creating, WalletSteps, ConfigSteps
<1>13. CASE Load(p)
  <2>1. /\ cmd[p].step = "load" /\ cmd'[p].job = cmd[p].job
        /\ \/ cmd'[p].step = "unlock" /\ cmd[p].job.kind # "default"
           \/ cmd'[p].step = "config" /\ cmd[p].job.kind = "default" /\ cmd'[p].loaded = cmd[p].loaded
           \/ cmd'[p].step = "done" /\ cmd'[p].result # "saved"
    BY <1>13, LoadIs DEF Load, At
  <2> QED
    BY <1>2, <2>1 DEF StepFits, Creating, WalletSteps, ConfigSteps
<1> QED
  BY <1>3, <1>4, <1>5, <1>6, <1>7, <1>8, <1>9, <1>10, <1>11, <1>12, <1>13 DEF Acts

\* What raced stays so.
LEMMA RacedGrows ==
  ASSUME NEW p \in Commands, Acts(p)
  PROVE  raced \subseteq raced'
  BY DEF Acts, Begin, Crash, Exists, Secret, Ensure, PassOpen, PassWrite, Save, WalletOpen,
         WalletWrite, ReadConfig, ConfigOpen, ConfigWrite, Account, Load, Unlock, Race
-----------------------------------------------------------------------------
(* Wallets                                                                 *)

\* The three parts of WalletInv, of one process or two.
Alone(p, q) == (cmd[p].step \in WalletSteps /\ cmd[q].step \in WalletSteps /\ Mine(p) = Mine(q))
                 => Mine(p) \in raced
WalletFits(p) ==
  (cmd[p].step \in WalletSteps \/ HasSaved(cmd[p])) /\ Mine(p) \notin raced =>
    /\ At(p, "walletOpen") => wallets[Mine(p)].state = "absent"
    /\ At(p, "walletWrite") => wallets[Mine(p)].state = "empty"
    /\ HasSaved(cmd[p]) => wallets[Mine(p)] = Saved(p)

LEMMA WalletParts ==
  WalletInv <=> (\A p, q \in Commands : p # q => Alone(p, q)) /\ \A p \in Commands : WalletFits(p)
  BY DEF WalletInv, Alone, WalletFits

\* Steps that leave the wallets alone and neither save nor lose one.
LEMMA WalletQuiet ==
  ASSUME WalletInv, NEW p \in Commands, UNCHANGED wallets, raced \subseteq raced',
         \A q \in Commands \ {p} : cmd'[q] = cmd[q],
         cmd'[p].step \notin WalletSteps,
         HasSaved(cmd'[p]) => /\ HasSaved(cmd[p]) /\ cmd'[p].job = cmd[p].job
                              /\ cmd'[p].secret = cmd[p].secret /\ cmd'[p].from = cmd[p].from
  PROVE  WalletInv'
<1>1. ASSUME NEW q \in Commands, NEW r \in Commands, q # r
      PROVE  Alone(q, r)'
  <2>1. CASE q # p /\ r # p
    BY <1>1, <2>1, WalletParts DEF Alone, Mine
  <2>2. CASE q = p \/ r = p
    BY <2>2 DEF Alone
  <2> QED
    BY <2>1, <2>2
<1>2. ASSUME NEW q \in Commands \ {p}
      PROVE  WalletFits(q)'
  BY <1>2, WalletParts DEF WalletFits, Mine, At, Saved
<1>3. WalletFits(p)'
  <2>1. WalletFits(p)
    BY WalletParts
  <2>2. CASE ~HasSaved(cmd'[p])
    BY <2>2 DEF WalletFits
  <2>3. CASE HasSaved(cmd'[p])
    <3>1. Mine(p)' = Mine(p) /\ Saved(p)' = Saved(p)
      BY <2>3 DEF Mine, Saved
    <3> QED
      BY <2>1, <2>3, <3>1 DEF WalletFits, At, WalletSteps
  <2> QED
    BY <2>2, <2>3
<1> QED
  BY <1>1, <1>2, <1>3, WalletParts DEF WalletInv, Alone, WalletFits

\* The file of a command that has saved is not the one another is writing.
LEMMA WalletWriterStep ==
  ASSUME TypeOK, StepInv, WalletInv, NEW p \in Commands, NEW file \in WalletFile,
         cmd[p].step \in WalletSteps,
         wallets' = [wallets EXCEPT ![Mine(p)] = file], UNCHANGED raced,
         \A q \in Commands \ {p} : cmd'[q] = cmd[q],
         cmd'[p].step \in WalletSteps \/ HasSaved(cmd'[p]) => cmd'[p].job = cmd[p].job,
         WalletFits(p)'
  PROVE  WalletInv'
<1>1. ASSUME NEW q \in Commands, NEW r \in Commands, q # r
      PROVE  Alone(q, r)'
  BY <1>1, WalletParts DEF Alone, Mine
<1>2. ASSUME NEW q \in Commands \ {p}
      PROVE  WalletFits(q)'
  <2> SUFFICES ASSUME cmd[q].step \in WalletSteps \/ HasSaved(cmd[q]), Mine(q) \notin raced
               PROVE  WalletFits(q)'
    BY <1>2 DEF WalletFits, Mine
  <2>1. WalletFits(q) /\ WalletFits(p) /\ Alone(p, q)
    BY <1>2, WalletParts
  <2>2. Mine(q) \in Paths
    <3>1. cmd[q].job \in Job /\ cmd[q].job.name # ""
      BY ReadType DEF StepInv, StepFits, HasSaved, WalletSteps, ConfigSteps
    <3> QED
      BY <3>1, PathType DEF Mine
  <2>3. Mine(q) # Mine(p)
    <3>1. CASE cmd[q].step \in WalletSteps
      BY <2>1, <3>1 DEF Alone
    <3>2. CASE HasSaved(cmd[q]) /\ Mine(q) = Mine(p)
      <4>1. wallets[Mine(p)].state = "whole"
        BY <2>1, <3>2 DEF WalletFits, Saved
      <4> QED
        BY <2>1, <3>2, <4>1 DEF WalletFits, WalletSteps, At
    <3> QED
      BY <3>1, <3>2
  <2>4. wallets'[Mine(q)] = wallets[Mine(q)]
    BY <2>2, <2>3 DEF TypeOK
  <2> QED
    BY <2>1, <2>4 DEF WalletFits, Mine, At, Saved
<1> QED
  BY <1>1, <1>2, WalletParts DEF WalletInv, Alone, WalletFits

LEMMA SaveWallet ==
  ASSUME TypeOK, StepInv, WalletInv, NEW p \in Commands, Save(p)
  PROVE  WalletInv'
<1>1. Acts(p) /\ UNCHANGED wallets
  BY DEF Acts, Save
<1>2. raced \subseteq raced' /\ \A q \in Commands \ {p} : cmd'[q] = cmd[q]
  BY <1>1, RacedGrows, OthersKept
<1>3. CASE Finish(p, "WALLET_EXISTS")
  <2>1. cmd'[p].step = "done" /\ cmd'[p].result # "saved"
    BY <1>3, FinishIs DEF Results
  <2> QED
    BY <1>1, <1>2, <2>1, WalletQuiet DEF WalletSteps, ConfigSteps, HasSaved
<1>4. CASE /\ wallets[Mine(p)].state = "absent" /\ Goto(p, "walletOpen")
           /\ Race(Mine(p), {q \in Inside(p, {"walletOpen", "walletWrite"}) : Mine(q) = Mine(p)})
  <2>1. cmd'[p].step = "walletOpen" /\ cmd'[p].job = cmd[p].job
    BY <1>4, GotoIs
  <2>2. Mine(p)' = Mine(p) /\ \A q \in Commands \ {p} : Mine(q)' = Mine(q)
    BY <1>2, <2>1 DEF Mine
  <2>3. ASSUME NEW q \in Commands, NEW r \in Commands, q # r
        PROVE  Alone(q, r)'
    <3>1. CASE q # p /\ r # p
      BY <1>2, <2>2, <2>3, <3>1, WalletParts DEF Alone
    <3>2. ASSUME NEW o \in Commands \ {p}, cmd[o].step \in WalletSteps, Mine(o) = Mine(p)
          PROVE  Mine(p) \in raced'
      BY <1>4, <3>2 DEF Race, Inside, WalletSteps
    <3> QED
      BY <1>2, <2>2, <2>3, <3>1, <3>2 DEF Alone
  <2>4. ASSUME NEW q \in Commands \ {p}
        PROVE  WalletFits(q)'
    BY <1>1, <1>2, <2>2, WalletParts DEF WalletFits, At, Saved
  <2>5. WalletFits(p)'
    BY <1>1, <1>4, <2>1, <2>2 DEF WalletFits, At, HasSaved, ConfigSteps
  <2> QED
    BY <2>3, <2>4, <2>5, WalletParts DEF WalletInv, Alone, WalletFits
<1> QED
  BY <1>3, <1>4, ReadType DEF Save, At, WalletFile, FileStates

LEMMA WriteWallet ==
  ASSUME TypeOK, StepInv, WalletInv, NEW p \in Commands, WalletOpen(p) \/ WalletWrite(p)
  PROVE  WalletInv'
<1>1. Acts(p) /\ cmd[p].step \in WalletSteps /\ UNCHANGED raced
  BY DEF Acts, WalletOpen, WalletWrite, At, WalletSteps
<1>2. \A q \in Commands \ {p} : cmd'[q] = cmd[q]
  BY <1>1, OthersKept
<1>3. /\ cmd'[p].job = cmd[p].job /\ cmd'[p].secret = cmd[p].secret /\ cmd'[p].from = cmd[p].from
      /\ WalletOpen(p) => cmd'[p].step = "walletWrite"
      /\ WalletWrite(p) => cmd'[p].step \in {"config", "done"}
  <2>1. CASE WalletOpen(p)
    BY <2>1, GotoIs DEF WalletOpen, WalletWrite, At
  <2>2. CASE WalletWrite(p)
    <3>1. Goto(p, "config") \/ Finish(p, "saved")
      BY <2>2 DEF WalletWrite
    <3>2. ~WalletOpen(p)
      BY <2>2 DEF WalletWrite, WalletOpen, At
    <3> QED
      BY <2>2, <3>1, <3>2, GotoIs, FinishIs DEF Results
  <2> QED
    BY <2>1, <2>2
<1>4. Mine(p) \in Paths /\ wallets \in [Paths -> WalletFile]
  BY <1>1, ReadType DEF WalletSteps, TypeOK
<1>5. CASE WalletOpen(p)
  <2> DEFINE file == [state |-> "empty", key |-> "", secret |-> "", from |-> ""]
  <2>1. file \in WalletFile /\ file.state = "empty"
    BY DEF WalletFile, FileStates, Passphrases
  <2>2. wallets' = [wallets EXCEPT ![Mine(p)] = file]
    BY <1>5 DEF WalletOpen
  <2> HIDE DEF file
  <2>3. WalletFits(p)'
    <3>1. Mine(p)' = Mine(p)
      BY <1>3 DEF Mine
    <3> QED
      BY <1>3, <1>4, <1>5, <2>1, <2>2, <3>1 DEF WalletFits, At, HasSaved, ConfigSteps
  <2> QED
    BY <1>1, <1>2, <1>3, <2>1, <2>2, <2>3, WalletWriterStep
<1>6. CASE WalletWrite(p)
  <2>1. Saved(p) \in WalletFile
    BY ReadType DEF Saved, WalletFile, FileStates, Command
  <2>2. wallets' = [wallets EXCEPT ![Mine(p)] = Saved(p)]
    BY <1>6 DEF WalletWrite
  <2>3. WalletFits(p)'
    <3>1. Mine(p)' = Mine(p) /\ Saved(p)' = Saved(p)
      BY <1>3 DEF Mine, Saved
    <3>2. wallets'[Mine(p)] = Saved(p)
      BY <1>4, <2>1, <2>2
    <3> QED
      BY <1>3, <1>6, <3>1, <3>2 DEF WalletFits, At
  <2> QED
    BY <1>1, <1>2, <1>3, <2>1, <2>2, <2>3, WalletWriterStep
<1> QED
  BY <1>5, <1>6

LEMMA WalletsFit == TypeOK /\ StepInv /\ WalletInv /\ [Next]_vars => WalletInv'
<1>1. ASSUME WalletInv, UNCHANGED vars
      PROVE  WalletInv'
  BY <1>1 DEF vars, WalletInv, HasSaved, At, Mine, Saved
<1> SUFFICES ASSUME TypeOK, StepInv, WalletInv, NEW p \in Commands, Acts(p)
             PROVE  WalletInv'
  BY <1>1 DEF Next, Acts
<1>2. CASE Save(p) \/ WalletOpen(p) \/ WalletWrite(p)
  BY <1>2, SaveWallet, WriteWallet
<1> SUFFICES ASSUME ~Save(p), ~WalletOpen(p), ~WalletWrite(p)
             PROVE  WalletInv'
  BY <1>2
<1>3. UNCHANGED wallets /\ raced \subseteq raced' /\ \A q \in Commands \ {p} : cmd'[q] = cmd[q]
  <2>1. UNCHANGED wallets
    BY DEF Acts, Begin, Crash, Exists, Secret, Ensure, PassOpen, PassWrite, ReadConfig, ConfigOpen,
           ConfigWrite, Account, Load, Unlock
  <2> QED
    BY <2>1, RacedGrows, OthersKept
<1> SUFFICES /\ cmd'[p].step \notin WalletSteps
             /\ HasSaved(cmd'[p]) => /\ HasSaved(cmd[p]) /\ cmd'[p].job = cmd[p].job
                                     /\ cmd'[p].secret = cmd[p].secret /\ cmd'[p].from = cmd[p].from
  BY <1>3, WalletQuiet
<1>4. CASE Begin(p)
  <2>1. cmd'[p].step = FirstStep(cmd'[p].job) /\ cmd'[p].job \in Job
    BY <1>4, BeginIs, VaultAssumption
  <2>2. /\ cmd'[p].step \in {"account", "load", "config", "exists", "secret", "save"}
        /\ cmd'[p].step = "config" => cmd'[p].job.kind = "set"
    BY <2>1 DEF FirstStep, Job, Kinds
  <2> QED
    BY <2>2 DEF WalletSteps, ConfigSteps, HasSaved
<1>5. CASE Crash(p)
  <2>1. cmd'[p].step = "dead"
    BY <1>5, GotoIs DEF Crash
  <2> QED
    BY <2>1 DEF WalletSteps, ConfigSteps, HasSaved
<1>6. CASE Exists(p)
  <2>1. \/ cmd'[p].step \in {"secret", "save"}
        \/ cmd'[p].step = "done" /\ cmd'[p].result # "saved"
    <3>1. CASE \E result \in Results \ {"saved"} : Finish(p, result)
      BY <1>6, <3>1, FinishIs DEF Exists, At
    <3>2. CASE Goto(p, "secret") \/ \E secret, from : WithSecret(p, secret, from)
      BY <1>6, <3>2, GotoIs, WithSecretIs DEF Exists, At
    <3> QED
      BY <1>6, <3>1, <3>2 DEF Exists, Results
  <2> QED
    BY <2>1 DEF WalletSteps, ConfigSteps, HasSaved
<1>7. CASE Secret(p) \/ Ensure(p) \/ PassOpen(p) \/ PassWrite(p)
  <2>1. cmd'[p].step \in {"ensure", "passOpen", "passWrite", "save"}
    BY <1>7, GotoIs, WithSecretIs DEF Secret, Ensure, PassOpen, PassWrite
  <2> QED
    BY <2>1 DEF WalletSteps, ConfigSteps, HasSaved
<1>8. CASE ReadConfig(p) \/ ConfigOpen(p)
  <2>1. /\ cmd[p].step \in {"config", "configOpen"} /\ cmd'[p].step \in {"configOpen", "configWrite"}
        /\ cmd'[p].job = cmd[p].job /\ cmd'[p].secret = cmd[p].secret /\ cmd'[p].from = cmd[p].from
    BY <1>8, GotoIs, ReadConfigIs DEF ReadConfig, ConfigOpen, At
  <2> QED
    BY <2>1 DEF WalletSteps, ConfigSteps, HasSaved
<1>9. CASE ConfigWrite(p)
  <2>1. /\ cmd[p].step = "configWrite" /\ cmd'[p].step = "done"
        /\ cmd'[p].result = "saved" => cmd[p].job.kind = "init"
        /\ cmd'[p].job = cmd[p].job /\ cmd'[p].secret = cmd[p].secret /\ cmd'[p].from = cmd[p].from
    BY <1>9, FinishIs DEF ConfigWrite, At, Results
  <2> QED
    BY <2>1 DEF WalletSteps, ConfigSteps, HasSaved
<1>10. CASE Account(p) \/ Unlock(p)
  <2>1. \/ cmd'[p].step = "load"
        \/ cmd'[p].step = "done" /\ cmd'[p].result # "saved"
    BY <1>10, AccountIs, UnlockIs
  <2> QED
    BY <2>1 DEF WalletSteps, ConfigSteps, HasSaved
<1>11. CASE Load(p)
  <2>1. \/ cmd'[p].step = "unlock"
        \/ cmd'[p].step = "config" /\ cmd'[p].job.kind = "default"
        \/ cmd'[p].step = "done" /\ cmd'[p].result # "saved"
    BY <1>11, LoadIs
  <2> QED
    BY <2>1 DEF WalletSteps, ConfigSteps, HasSaved
<1> QED
  BY <1>4, <1>5, <1>6, <1>7, <1>8, <1>9, <1>10, <1>11 DEF Acts
-----------------------------------------------------------------------------
(* The passphrase                                                          *)

TwoGenerate(p, q) == (cmd[p].step \in PassSteps /\ cmd[q].step \in PassSteps) => <<"pass">> \in raced
PassFits(p) ==
  <<"pass">> \notin raced =>
    /\ cmd[p].step \in PassSteps => pass.state # "whole"
    /\ cmd[p].from = "file" => pass = [state |-> "whole", secret |-> cmd[p].secret]
    /\ cmd[p].loaded.from = "file" => pass = [state |-> "whole", secret |-> cmd[p].loaded.secret]
PathKept(w) == (wallets[w].from = "file" /\ <<"pass">> \notin raced)
                 => pass = [state |-> "whole", secret |-> wallets[w].secret]

LEMMA PassParts ==
  /\ PassInv <=> /\ \A p, q \in Commands : p # q => TwoGenerate(p, q)
                 /\ \A p \in Commands : PassFits(p)
  /\ PassphraseKept <=> \A w \in Paths : PathKept(w)
  BY DEF PassInv, PassphraseKept, TwoGenerate, PassFits, PathKept

\* Steps that leave the file and its wallets alone and do not turn to it.
LEMMA PassQuiet ==
  ASSUME PassInv, PassphraseKept, NEW p \in Commands, UNCHANGED <<pass, wallets>>,
         raced \subseteq raced', \A q \in Commands \ {p} : cmd'[q] = cmd[q],
         cmd'[p].step \notin PassSteps, PassFits(p)'
  PROVE  PassInv' /\ PassphraseKept'
<1>1. ASSUME NEW q \in Commands, NEW r \in Commands, q # r
      PROVE  TwoGenerate(q, r)'
  BY <1>1, PassParts DEF TwoGenerate
<1>2. ASSUME NEW q \in Commands \ {p}
      PROVE  PassFits(q)'
  BY <1>2, PassParts DEF PassFits
<1>3. ASSUME NEW w \in Paths
      PROVE  PathKept(w)'
  BY <1>3, PassParts DEF PathKept
<1> QED
  BY <1>1, <1>2, <1>3, PassParts DEF PassInv, PassphraseKept, TwoGenerate, PassFits, PathKept

\* What is read from the file is in it.
LEMMA SecretPass ==
  ASSUME TypeOK, StepInv, PassInv, PassphraseKept, NEW p \in Commands, Secret(p) \/ Ensure(p)
  PROVE  PassInv' /\ PassphraseKept'
<1>1. Acts(p) /\ UNCHANGED <<pass, wallets>>
  BY DEF Acts, Secret, Ensure
<1>2. raced \subseteq raced' /\ \A q \in Commands \ {p} : cmd'[q] = cmd[q]
  BY <1>1, RacedGrows, OthersKept
<1>3. PassFits(p) /\ pass \in PassFile
  BY PassParts DEF TypeOK
<1>4. CASE \E secret : WithSecret(p, secret, "user")
  <2>1. cmd'[p].step = "save" /\ cmd'[p].from = "user" /\ cmd'[p].loaded = cmd[p].loaded
    BY <1>4, WithSecretIs
  <2> QED
    BY <1>1, <1>2, <1>3, <2>1, PassQuiet DEF PassFits, PassSteps
<1>5. CASE pass.state = "whole" /\ WithSecret(p, pass.secret, "file")
  <2>1. cmd'[p].step = "save" /\ cmd'[p].secret = pass.secret /\ cmd'[p].loaded = cmd[p].loaded
    BY <1>5, WithSecretIs
  <2>2. pass = [state |-> "whole", secret |-> cmd'[p].secret]
    BY <1>3, <1>5, <2>1 DEF PassFile
  <2> QED
    BY <1>1, <1>2, <1>3, <2>1, <2>2, PassQuiet DEF PassFits, PassSteps
<1>6. CASE Goto(p, "ensure")
  <2>1. /\ cmd'[p].step = "ensure" /\ cmd'[p].loaded = cmd[p].loaded
        /\ cmd'[p].from = cmd[p].from /\ cmd'[p].secret = cmd[p].secret
    BY <1>6, GotoIs
  <2> QED
    BY <1>1, <1>2, <1>3, <2>1, PassQuiet DEF PassFits, PassSteps
<1>7. CASE /\ pass.state # "whole" /\ Goto(p, "passOpen")
           /\ Race(<<"pass">>, Inside(p, {"passOpen", "passWrite"}))
  <2>1. /\ cmd'[p].step = "passOpen" /\ cmd'[p].loaded = cmd[p].loaded
        /\ cmd'[p].from = cmd[p].from /\ cmd'[p].secret = cmd[p].secret
    BY <1>7, GotoIs
  <2>2. ASSUME NEW q \in Commands, NEW r \in Commands, q # r
        PROVE  TwoGenerate(q, r)'
    <3>1. CASE q # p /\ r # p
      BY <1>2, <2>2, <3>1, PassParts DEF TwoGenerate
    <3>2. ASSUME NEW o \in Commands \ {p}, cmd[o].step \in PassSteps
          PROVE  <<"pass">> \in raced'
      BY <1>7, <3>2 DEF Race, Inside, PassSteps
    <3> QED
      BY <1>2, <2>2, <3>1, <3>2 DEF TwoGenerate
  <2>3. ASSUME NEW q \in Commands
        PROVE  PassFits(q)'
    <3>1. CASE q # p
      BY <1>1, <1>2, <3>1, PassParts DEF PassFits
    <3>2. CASE q = p
      BY <1>1, <1>2, <1>3, <1>7, <2>1, <3>2 DEF PassFits
    <3> QED
      BY <3>1, <3>2
  <2>4. ASSUME NEW w \in Paths
        PROVE  PathKept(w)'
    BY <1>1, <1>2, <2>4, PassParts DEF PathKept
  <2> QED
    BY <2>2, <2>3, <2>4 DEF PassInv, PassphraseKept, TwoGenerate, PassFits, PathKept
<1> QED
  BY <1>4, <1>5, <1>6, <1>7 DEF Secret, Ensure

\* Whoever writes the file finds nobody who took a passphrase from it.
LEMMA WritePass ==
  ASSUME TypeOK, StepInv, PassInv, PassphraseKept, NEW p \in Commands, PassOpen(p) \/ PassWrite(p)
  PROVE  PassInv' /\ PassphraseKept'
<1>1. Acts(p) /\ UNCHANGED <<wallets, raced>> /\ cmd[p].step \in PassSteps
  BY DEF Acts, PassOpen, PassWrite, At, PassSteps
<1>2. \A q \in Commands \ {p} : cmd'[q] = cmd[q]
  BY <1>1, OthersKept
<1>3. ASSUME NEW q \in Commands, NEW r \in Commands, q # r
      PROVE  TwoGenerate(q, r)'
  BY <1>1, <1>2, <1>3, PassParts DEF TwoGenerate
<1> SUFFICES ASSUME <<"pass">> \notin raced
             PROVE  (\A q \in Commands : PassFits(q)') /\ \A w \in Paths : PathKept(w)'
  BY <1>1, <1>3 DEF PassInv, PassphraseKept, TwoGenerate, PassFits, PathKept
<1>4. pass.state # "whole"
  BY <1>1, PassParts DEF PassFits
<1>5. ASSUME NEW secret
      PROVE  pass # [state |-> "whole", secret |-> secret]
  BY <1>4
<1>6. ASSUME NEW w \in Paths
      PROVE  wallets[w].from # "file"
  BY <1>5, <1>6, PassParts DEF PathKept
<1>7. ASSUME NEW q \in Commands
      PROVE  cmd[q].from # "file" /\ cmd[q].loaded.from # "file"
  BY <1>5, <1>7, PassParts DEF PassFits
<1>8. ASSUME NEW q \in Commands \ {p}
      PROVE  cmd[q].step \notin PassSteps
  BY <1>1, <1>8, PassParts DEF TwoGenerate
<1>9. ASSUME NEW w \in Paths
      PROVE  PathKept(w)'
  BY <1>1, <1>6, <1>9 DEF PathKept
<1>10. ASSUME NEW q \in Commands \ {p}
       PROVE  PassFits(q)'
  BY <1>2, <1>7, <1>8, <1>10 DEF PassFits
<1>11. PassFits(p)'
  <2>1. CASE PassOpen(p)
    <3>1. pass'.state = "empty"
      BY <2>1 DEF PassOpen
    <3>2. cmd'[p].from = cmd[p].from /\ cmd'[p].loaded = cmd[p].loaded
      BY <2>1, GotoIs DEF PassOpen
    <3> QED
      BY <1>7, <3>1, <3>2 DEF PassFits
  <2>2. CASE PassWrite(p)
    <3>1. pass' = [state |-> "whole", secret |-> p]
      BY <2>2 DEF PassWrite
    <3>2. cmd'[p].step = "save" /\ cmd'[p].secret = p /\ cmd'[p].loaded = cmd[p].loaded
      BY <2>2, WithSecretIs DEF PassWrite
    <3> QED
      BY <1>7, <3>1, <3>2 DEF PassFits, PassSteps
  <2> QED
    BY <2>1, <2>2
<1> QED
  BY <1>9, <1>10, <1>11

\* A wallet is written with the passphrase its command holds, and read with it.
LEMMA WalletPass ==
  ASSUME TypeOK, StepInv, PassInv, PassphraseKept, NEW p \in Commands,
         WalletOpen(p) \/ WalletWrite(p)
  PROVE  PassInv' /\ PassphraseKept'
<1>1. Acts(p) /\ UNCHANGED <<pass, raced>> /\ cmd[p].step \in WalletSteps
  BY DEF Acts, WalletOpen, WalletWrite, At, WalletSteps
<1>2. \A q \in Commands \ {p} : cmd'[q] = cmd[q]
  BY <1>1, OthersKept
<1>3. /\ cmd'[p].step \notin PassSteps /\ cmd'[p].secret = cmd[p].secret /\ cmd'[p].from = cmd[p].from
      /\ cmd'[p].loaded = cmd[p].loaded
  <2>1. CASE Goto(p, "walletWrite") \/ Goto(p, "config")
    BY <2>1, GotoIs DEF PassSteps
  <2>2. CASE Finish(p, "saved")
    BY <2>2, FinishIs DEF PassSteps, Results
  <2> QED
    BY <2>1, <2>2 DEF WalletOpen, WalletWrite
<1>4. \A q \in Commands : PassFits(q)
  BY PassParts
<1>5. ASSUME NEW q \in Commands
      PROVE  PassFits(q)'
  BY <1>1, <1>2, <1>3, <1>4, <1>5 DEF PassFits
<1>6. ASSUME NEW q \in Commands, NEW r \in Commands, q # r
      PROVE  TwoGenerate(q, r)'
  BY <1>1, <1>2, <1>3, <1>6, PassParts DEF TwoGenerate
<1>7. Mine(p) \in Paths /\ wallets \in [Paths -> WalletFile]
  BY <1>1, ReadType DEF WalletSteps, TypeOK
<1>8. ASSUME NEW w \in Paths
      PROVE  PathKept(w)'
  <2>1. CASE w # Mine(p)
    <3>1. wallets'[w] = wallets[w]
      BY <1>7, <2>1 DEF WalletOpen, WalletWrite
    <3> QED
      BY <1>1, <3>1, PassParts DEF PathKept
  <2>2. CASE w = Mine(p) /\ WalletOpen(p)
    <3>1. wallets'[w].from = ""
      BY <1>7, <2>2 DEF WalletOpen
    <3> QED
      BY <3>1 DEF PathKept
  <2>3. CASE w = Mine(p) /\ WalletWrite(p)
    <3>1. wallets'[w].from = cmd[p].from /\ wallets'[w].secret = cmd[p].secret
      BY <1>7, <2>3 DEF WalletWrite, Saved
    <3> QED
      BY <1>1, <1>4, <3>1 DEF PathKept, PassFits
  <2> QED
    BY <2>1, <2>2, <2>3
<1> QED
  BY <1>5, <1>6, <1>8 DEF PassInv, PassphraseKept, TwoGenerate, PassFits, PathKept

LEMMA LoadPass ==
  ASSUME TypeOK, StepInv, PassInv, PassphraseKept, NEW p \in Commands, Load(p)
  PROVE  PassInv' /\ PassphraseKept'
<1>1. Acts(p) /\ UNCHANGED <<pass, wallets, raced>>
  BY DEF Acts, Load
<1>2. raced \subseteq raced' /\ \A q \in Commands \ {p} : cmd'[q] = cmd[q]
  BY <1>1, OthersKept
<1>3. /\ cmd'[p].step \notin PassSteps /\ cmd'[p].secret = cmd[p].secret /\ cmd'[p].from = cmd[p].from
      /\ \/ cmd'[p].loaded = cmd[p].loaded
         \/ cmd'[p].loaded = wallets[Mine(p)]
  BY LoadIs DEF PassSteps
<1>4. PassFits(p) /\ PathKept(Mine(p))
  <2>1. Mine(p) \in Paths
    BY ReadType DEF Load, At
  <2> QED
    BY <2>1, PassParts
<1> QED
  BY <1>1, <1>2, <1>3, <1>4, PassQuiet DEF PassFits, PathKept

LEMMA PassStep ==
  TypeOK /\ StepInv /\ PassInv /\ PassphraseKept /\ [Next]_vars => PassInv' /\ PassphraseKept'
<1>1. ASSUME PassInv, PassphraseKept, UNCHANGED vars
      PROVE  PassInv' /\ PassphraseKept'
  BY <1>1 DEF vars, PassInv, PassphraseKept
<1> SUFFICES ASSUME TypeOK, StepInv, PassInv, PassphraseKept, NEW p \in Commands, Acts(p)
             PROVE  PassInv' /\ PassphraseKept'
  BY <1>1 DEF Next, Acts
<1>2. CASE Secret(p) \/ Ensure(p) \/ PassOpen(p) \/ PassWrite(p) \/ WalletOpen(p) \/ WalletWrite(p) \/ Load(p)
  BY <1>2, SecretPass, WritePass, WalletPass, LoadPass
<1> SUFFICES ASSUME \/ Begin(p) \/ Crash(p) \/ Exists(p) \/ Save(p)
                    \/ ReadConfig(p) \/ ConfigOpen(p) \/ ConfigWrite(p) \/ Account(p) \/ Unlock(p)
             PROVE  PassInv' /\ PassphraseKept'
  BY <1>2 DEF Acts
<1>3. UNCHANGED <<pass, wallets>>
  BY DEF Begin, Crash, Exists, Save, ReadConfig, ConfigOpen, ConfigWrite, Account, Unlock
<1>4. raced \subseteq raced' /\ \A q \in Commands \ {p} : cmd'[q] = cmd[q]
  BY RacedGrows, OthersKept
<1>5. cmd'[p].step \notin PassSteps
  <2>1. CASE Begin(p)
    <3>1. cmd'[p].step = FirstStep(cmd'[p].job) /\ cmd'[p].job \in Job
      BY <2>1, BeginIs, VaultAssumption
    <3> QED
      BY <3>1 DEF FirstStep, PassSteps, Job, Kinds
  <2>2. CASE Exists(p)
    <3>1. cmd'[p].step \in {"secret", "save", "done"}
      <4>1. CASE \E result \in Results : Finish(p, result)
        BY <4>1, FinishIs
      <4>2. CASE Goto(p, "secret") \/ \E secret, from : WithSecret(p, secret, from)
        BY <4>2, GotoIs, WithSecretIs
      <4> QED
        BY <2>2, <4>1, <4>2 DEF Exists, Results
    <3> QED
      BY <3>1 DEF PassSteps
  <2>3. CASE Crash(p) \/ Save(p) \/ ReadConfig(p) \/ ConfigOpen(p) \/ ConfigWrite(p)
    <3>1. cmd'[p].step \in {"dead", "walletOpen", "configOpen", "configWrite", "done"}
      <4>1. CASE Crash(p) \/ ConfigOpen(p)
        BY <4>1, GotoIs DEF Crash, ConfigOpen
      <4>2. CASE ConfigWrite(p)
        BY <4>2, FinishIs DEF ConfigWrite, Results
      <4>3. CASE Save(p) \/ ReadConfig(p)
        BY <4>3, SaveIs, ReadConfigIs
      <4> QED
        BY <2>3, <4>1, <4>2, <4>3
    <3> QED
      BY <3>1 DEF PassSteps
  <2>4. CASE Account(p) \/ Unlock(p)
    BY <2>4, AccountIs, UnlockIs DEF PassSteps
  <2> QED
    BY <2>1, <2>2, <2>3, <2>4
<1>6. /\ cmd'[p].loaded = cmd[p].loaded
      /\ cmd'[p].from = "file" => cmd[p].from = "file" /\ cmd'[p].secret = cmd[p].secret
  <2>1. CASE Exists(p)
    <3>1. CASE \E result \in Results : Finish(p, result)
      BY <3>1, FinishIs
    <3>2. CASE Goto(p, "secret")
      BY <3>2, GotoIs
    <3>3. CASE \E secret : WithSecret(p, secret, "user")
      BY <3>3, WithSecretIs
    <3> QED
      BY <2>1, <3>1, <3>2, <3>3 DEF Exists, Results
  <2>2. CASE Begin(p)
    BY <2>2, BeginIs
  <2>3. CASE Crash(p) \/ Save(p) \/ ReadConfig(p) \/ ConfigOpen(p) \/ ConfigWrite(p)
    BY <2>3, GotoIs, FinishIs, ReadConfigIs DEF Crash, Save, ConfigOpen, ConfigWrite, Results
  <2>4. CASE Account(p) \/ Unlock(p)
    BY <2>4, AccountIs, UnlockIs
  <2> QED
    BY <2>1, <2>2, <2>3, <2>4
<1>7. PassFits(p)
  BY PassParts
<1> QED
  BY <1>3, <1>4, <1>5, <1>6, <1>7, PassQuiet DEF PassFits

\* A wallet of the file that was read opens where the file is what it is opened with.
LEMMA OpensStep ==
  TypeOK /\ StepInv /\ PassInv /\ FileWalletOpens /\ [Next]_vars => FileWalletOpens'
<1> DEFINE Opens(p) ==
      LET j == cmd[p].job IN
      (/\ cmd[p].loaded.from = "file" /\ <<"pass">> \notin raced
       /\ j.chain = "vara" \/ (j.flag = "" /\ j.env = "" /\ OwnSecret[j.name] = ""))
        => ~At(p, "done") \/ cmd[p].result = "opened"
<1>1. FileWalletOpens <=> \A p \in Commands : Opens(p)
  BY DEF FileWalletOpens
<1>2. ASSUME FileWalletOpens, UNCHANGED vars
      PROVE  FileWalletOpens'
  BY <1>2 DEF vars, FileWalletOpens, At
<1> SUFFICES ASSUME TypeOK, StepInv, PassInv, \A p \in Commands : Opens(p), NEW p \in Commands, Acts(p)
             PROVE  FileWalletOpens'
  BY <1>1, <1>2 DEF Next, Acts
<1>3. raced \subseteq raced' /\ \A q \in Commands \ {p} : cmd'[q] = cmd[q]
  BY RacedGrows, OthersKept
<1>4. ASSUME NEW q \in Commands \ {p}
      PROVE  Opens(q)'
  BY <1>3, <1>4 DEF At
<1>5. Opens(p)'
  <2>1. PassFits(p)
    BY PassParts
  <2>2. CASE Unlock(p)
    <3> DEFINE j == cmd[p].job
               file == cmd[p].loaded
    <3>1. CASE /\ file.from = "file" /\ <<"pass">> \notin raced
               /\ j.chain = "vara" \/ (j.flag = "" /\ j.env = "" /\ OwnSecret[j.name] = "")
      <4>1. pass.state = "whole" /\ pass.secret = file.secret
        <5>1. pass = [state |-> "whole", secret |-> file.secret]
          BY <2>1, <3>1 DEF PassFits
        <5> QED
          BY <5>1
      <4>2. Finish(p, "opened")
        <5>1. CASE j.chain = "vara"
          <6>1. resolvePassphrase(j.env) = file.secret
            BY <4>1 DEF resolvePassphrase
          <6> QED
            BY <2>2, <5>1, <6>1 DEF Unlock
        <5>2. CASE j.chain # "vara"
          <6>1. EthSecret(j) = file.secret
            BY <3>1, <4>1, <5>2 DEF EthSecret
          <6> QED
            BY <2>2, <5>2, <6>1 DEF Unlock
        <5> QED
          BY <5>1, <5>2
      <4>3. cmd'[p].result = "opened"
        BY <4>2, FinishIs DEF Results
      <4> QED
        BY <4>3
    <3>2. cmd'[p].job = j /\ cmd'[p].loaded = file /\ UNCHANGED raced
      BY <2>2, UnlockIs DEF Unlock
    <3> QED
      BY <3>1, <3>2
  <2>3. CASE Load(p)
    <3>1. cmd[p].loaded.from # "file"
      BY <2>3 DEF StepInv, StepFits, Load, At
    <3>2. cmd'[p].step # "done" \/ cmd'[p].loaded = cmd[p].loaded
      BY <2>3, LoadIs
    <3> QED
      BY <3>1, <3>2 DEF At
  <2>4. CASE Crash(p)
    <3>1. cmd'[p].step = "dead"
      BY <2>4, GotoIs DEF Crash
    <3> QED
      BY <3>1 DEF At
  <2>5. CASE ~Unlock(p) /\ ~Load(p) /\ ~Crash(p)
    <3>1. cmd[p].loaded.from # "file"
      BY <2>5 DEF StepInv, StepFits, At, Acts, Begin, Exists, Secret, Ensure, PassOpen, PassWrite, Save,
                  WalletOpen, WalletWrite, ReadConfig, ConfigOpen, ConfigWrite, Account
    <3>2. cmd'[p].loaded = cmd[p].loaded
      <4>1. CASE Exists(p) \/ Secret(p) \/ Ensure(p)
        BY <4>1, GotoIs, FinishIs, WithSecretIs DEF Exists, Secret, Ensure, Results
      <4>2. CASE PassOpen(p) \/ PassWrite(p) \/ Save(p) \/ WalletOpen(p) \/ WalletWrite(p)
        BY <4>2, GotoIs, FinishIs, WithSecretIs DEF PassOpen, PassWrite, Save, WalletOpen, WalletWrite, Results
      <4>3. CASE Begin(p) \/ ReadConfig(p) \/ ConfigOpen(p) \/ ConfigWrite(p) \/ Account(p)
        BY <4>3, BeginIs, ReadConfigIs, GotoIs, FinishIs, AccountIs DEF ConfigOpen, ConfigWrite, Results
      <4> QED
        BY <2>5, <4>1, <4>2, <4>3 DEF Acts
    <3> QED
      BY <3>1, <3>2
  <2> QED
    BY <2>2, <2>3, <2>4, <2>5
<1> QED
  BY <1>1, <1>4, <1>5 DEF FileWalletOpens
-----------------------------------------------------------------------------
(* The settings                                                            *)

TwoSet(p, q) == (cmd[p].step \in ConfigSteps /\ cmd[q].step \in ConfigSteps) => <<"config">> \in raced
SettingFits(p) ==
  (<<"config">> \notin raced /\ HasSet(p)) =>
    /\ (\A q \in Commands : ~At(q, "configWrite")) =>
         config.state = "whole" /\ config.settings[cmd[p].job.key] = cmd[p].job.name
    /\ \A q \in Commands : cmd[q].step \in ConfigSteps =>
         cmd[q].read[cmd[p].job.key] = cmd[p].job.name

LEMMA ConfigParts ==
  ConfigInv <=> (\A p, q \in Commands : p # q => TwoSet(p, q)) /\ \A p \in Commands : SettingFits(p)
  BY DEF ConfigInv, TwoSet, SettingFits

\* A command that begins or goes on does not make up for a key someone set.
LEMMA HasSetKept ==
  ASSUME TypeOK, NEW p \in Commands, NEW q \in Commands \ {p},
         \A o \in Commands \ {p} : cmd'[o] = cmd[o],
         Writing(p) => Writing(p)' /\ cmd'[p].job.key = cmd[p].job.key,
         HasSet(q)'
  PROVE  HasSet(q)
<1>1. cmd'[q] = cmd[q] /\ Writing(q)' = Writing(q)
  BY DEF Writing, At
<1>2. ASSUME NEW o \in Commands \ {q}, Writing(o)
      PROVE  cmd[o].job.key # cmd[q].job.key
  <2>1. Writing(o)' /\ cmd'[o].job.key = cmd[o].job.key
    BY <1>2 DEF Writing, At
  <2> QED
    BY <1>1, <2>1 DEF HasSet
<1> QED
  BY <1>1, <1>2 DEF HasSet, At

\* Steps that leave the settings alone and neither report nor take up one.
LEMMA ConfigQuiet ==
  ASSUME TypeOK, ConfigInv, NEW p \in Commands, UNCHANGED config, raced \subseteq raced',
         \A q \in Commands \ {p} : cmd'[q] = cmd[q],
         cmd[p].step # "configWrite" \/ <<"config">> \in raced', cmd'[p].step \notin ConfigSteps,
         Writing(p) => Writing(p)' /\ cmd'[p].job.key = cmd[p].job.key,
         ~HasSet(p)'
  PROVE  ConfigInv'
<1>1. ASSUME NEW q \in Commands, NEW r \in Commands, q # r
      PROVE  TwoSet(q, r)'
  BY <1>1, ConfigParts DEF TwoSet
<1>2. ASSUME NEW q \in Commands \ {p}, <<"config">> \notin raced', HasSet(q)'
      PROVE  SettingFits(q)'
  <2>1. HasSet(q)
    BY <1>2, HasSetKept
  <2>2. SettingFits(q)
    BY ConfigParts
  <2>3. ASSUME \A o \in Commands : ~At(o, "configWrite")'
        PROVE  \A o \in Commands : ~At(o, "configWrite")
    BY <1>2, <2>3 DEF At
  <2>4. \A o \in Commands : cmd'[o].step \in ConfigSteps => o # p
    OBVIOUS
  <2> QED
    BY <1>2, <2>1, <2>2, <2>3, <2>4 DEF SettingFits
<1>3. ASSUME NEW q \in Commands
      PROVE  SettingFits(q)'
  BY <1>2, <1>3 DEF SettingFits
<1> QED
  BY <1>1, <1>3 DEF ConfigInv, TwoSet, SettingFits

\* The settings are read where all that was set is in them.
LEMMA ReadConfigInv ==
  ASSUME TypeOK, StepInv, ConfigInv, NEW p \in Commands, ReadConfig(p)
  PROVE  ConfigInv'
<1>1. Acts(p) /\ UNCHANGED config /\ cmd[p].step = "config"
  BY DEF Acts, ReadConfig, At
<1>2. raced \subseteq raced' /\ \A q \in Commands \ {p} : cmd'[q] = cmd[q]
  BY <1>1, RacedGrows, OthersKept
<1>3. cmd'[p].step = "configOpen" /\ cmd'[p].job = cmd[p].job /\ cmd'[p].read = Settings
  BY ReadConfigIs
<1>4. Writing(p)' /\ ~HasSet(p)'
  <2>1. cmd[p].job.kind \in {"init", "default", "set"}
    BY <1>1 DEF StepInv, StepFits
  <2> QED
    BY <1>3, <2>1 DEF Writing, HasSet, At
<1>5. ASSUME NEW o \in Commands \ {p}, cmd[o].step \in ConfigSteps
      PROVE  <<"config">> \in raced'
  BY <1>5 DEF ReadConfig, Race, Inside, ConfigSteps
<1>6. ASSUME NEW q \in Commands, NEW r \in Commands, q # r
      PROVE  TwoSet(q, r)'
  <2>1. CASE q # p /\ r # p
    BY <1>2, <1>6, <2>1, ConfigParts DEF TwoSet
  <2> QED
    BY <1>2, <1>5, <1>6, <2>1 DEF TwoSet
<1>7. ASSUME NEW q \in Commands \ {p}, <<"config">> \notin raced', HasSet(q)'
      PROVE  SettingFits(q)'
  <2>1. HasSet(q) /\ SettingFits(q)
    BY <1>2, <1>3, <1>4, <1>7, HasSetKept, ConfigParts
  <2>2. \A o \in Commands : ~At(o, "configWrite")
    BY <1>1, <1>5, <1>7 DEF At, ConfigSteps
  <2>3. config.state = "whole" /\ config.settings[cmd[q].job.key] = cmd[q].job.name
    BY <1>2, <1>7, <2>1, <2>2 DEF SettingFits
  <2>4. cmd'[p].read[cmd[q].job.key] = cmd[q].job.name
    BY <1>3, <2>3 DEF Settings
  <2> QED
    BY <1>1, <1>2, <1>7, <2>1, <2>3, <2>4 DEF SettingFits
<1>8. ASSUME NEW q \in Commands
      PROVE  SettingFits(q)'
  BY <1>4, <1>7, <1>8 DEF SettingFits
<1> QED
  BY <1>6, <1>8 DEF ConfigInv, TwoSet, SettingFits

LEMMA OpenConfigInv ==
  ASSUME TypeOK, StepInv, ConfigInv, NEW p \in Commands, ConfigOpen(p)
  PROVE  ConfigInv'
<1>1. Acts(p) /\ UNCHANGED raced /\ cmd[p].step = "configOpen"
  BY DEF Acts, ConfigOpen, At
<1>2. \A q \in Commands \ {p} : cmd'[q] = cmd[q]
  BY <1>1, OthersKept
<1>3. cmd'[p].step = "configWrite" /\ cmd'[p].job = cmd[p].job /\ cmd'[p].read = cmd[p].read
  BY GotoIs DEF ConfigOpen
<1>4. Writing(p)' /\ ~HasSet(p)'
  <2>1. cmd[p].job.kind \in {"init", "default", "set"}
    BY <1>1 DEF StepInv, StepFits, ConfigSteps
  <2> QED
    BY <1>3, <2>1 DEF Writing, HasSet, At
<1>5. ASSUME NEW q \in Commands, NEW r \in Commands, q # r
      PROVE  TwoSet(q, r)'
  BY <1>1, <1>2, <1>5, ConfigParts DEF TwoSet, ConfigSteps
<1>6. ASSUME NEW q \in Commands \ {p}, HasSet(q)'
      PROVE  SettingFits(q)'
  <2>1. HasSet(q) /\ SettingFits(q)
    BY <1>2, <1>3, <1>4, <1>6, HasSetKept, ConfigParts
  <2>2. At(p, "configWrite")'
    BY <1>3 DEF At
  <2>3. cmd[p].step \in ConfigSteps
    BY <1>1 DEF ConfigSteps
  <2> QED
    BY <1>1, <1>2, <1>3, <1>6, <2>1, <2>2, <2>3 DEF SettingFits
<1>7. ASSUME NEW q \in Commands
      PROVE  SettingFits(q)'
  BY <1>4, <1>6, <1>7 DEF SettingFits
<1> QED
  BY <1>5, <1>7 DEF ConfigInv, TwoSet, SettingFits

\* All keys but its own are written as they were read.
LEMMA WriteConfigInv ==
  ASSUME TypeOK, StepInv, ConfigInv, NEW p \in Commands, ConfigWrite(p)
  PROVE  ConfigInv'
<1>1. Acts(p) /\ UNCHANGED raced /\ cmd[p].step = "configWrite"
  BY DEF Acts, ConfigWrite, At
<1>2. \A q \in Commands \ {p} : cmd'[q] = cmd[q]
  BY <1>1, OthersKept
<1>3. cmd'[p].step = "done" /\ cmd'[p].job = cmd[p].job /\ cmd'[p].read = cmd[p].read
  BY FinishIs DEF ConfigWrite, Results
<1>4. Writing(p) /\ Writing(p)'
  <2>1. cmd[p].job.kind \in {"init", "default", "set"}
    BY <1>1 DEF StepInv, StepFits, ConfigSteps
  <2> QED
    BY <1>1, <1>3, <2>1 DEF Writing, At
<1>5. ASSUME NEW q \in Commands, NEW r \in Commands, q # r
      PROVE  TwoSet(q, r)'
  BY <1>1, <1>2, <1>3, <1>5, ConfigParts DEF TwoSet, ConfigSteps
<1>6. /\ config'.state = "whole"
      /\ config'.settings = [cmd[p].read EXCEPT ![cmd[p].job.key] = cmd[p].job.name]
  BY DEF ConfigWrite, Updated
<1>7. cmd[p].read \in [Keys -> Names \cup {""}] /\ \A q \in Commands : cmd[q].job.key \in Keys
  BY DEF TypeOK, Command, Job
<1>8. ASSUME <<"config">> \notin raced, NEW o \in Commands
      PROVE  cmd'[o].step \notin ConfigSteps
  BY <1>1, <1>2, <1>3, <1>8, ConfigParts DEF TwoSet, ConfigSteps
<1>9. ASSUME NEW q \in Commands, <<"config">> \notin raced, HasSet(q)'
      PROVE  config'.settings[cmd[q].job.key] = cmd[q].job.name
  <2>1. CASE q = p
    BY <1>6, <1>7, <2>1
  <2>2. CASE q # p
    <3>1. HasSet(q) /\ SettingFits(q)
      BY <1>2, <1>3, <1>4, <1>9, <2>2, HasSetKept, ConfigParts
    <3>2. cmd[p].read[cmd[q].job.key] = cmd[q].job.name
      BY <1>1, <1>9, <3>1 DEF SettingFits, ConfigSteps
    <3>3. cmd[q].job.key # cmd[p].job.key
      BY <1>4, <2>2, <3>1 DEF HasSet
    <3> QED
      BY <1>6, <1>7, <3>2, <3>3
  <2> QED
    BY <2>1, <2>2
<1>10. ASSUME NEW q \in Commands
       PROVE  SettingFits(q)'
  <2> SUFFICES ASSUME <<"config">> \notin raced, HasSet(q)'
               PROVE  SettingFits(q)'
    BY <1>1 DEF SettingFits
  <2>1. cmd'[q].job = cmd[q].job
    BY <1>2, <1>3
  <2> QED
    BY <1>6, <1>8, <1>9, <2>1 DEF SettingFits
<1> QED
  BY <1>5, <1>10 DEF ConfigInv, TwoSet, SettingFits

LEMMA ConfigStep == TypeOK /\ StepInv /\ ConfigInv /\ [Next]_vars => ConfigInv'
<1>1. ASSUME ConfigInv, UNCHANGED vars
      PROVE  ConfigInv'
  BY <1>1 DEF vars, ConfigInv, HasSet, Writing, At
<1> SUFFICES ASSUME TypeOK, StepInv, ConfigInv, NEW p \in Commands, Acts(p)
             PROVE  ConfigInv'
  BY <1>1 DEF Next, Acts
<1>2. CASE ReadConfig(p) \/ ConfigOpen(p) \/ ConfigWrite(p)
  BY <1>2, ReadConfigInv, OpenConfigInv, WriteConfigInv
<1> SUFFICES ASSUME ~ReadConfig(p), ~ConfigOpen(p), ~ConfigWrite(p)
             PROVE  ConfigInv'
  BY <1>2
<1>3. UNCHANGED config /\ raced \subseteq raced' /\ \A q \in Commands \ {p} : cmd'[q] = cmd[q]
  <2>1. UNCHANGED config
    BY DEF Acts, Begin, Crash, Exists, Secret, Ensure, PassOpen, PassWrite, Save, WalletOpen, WalletWrite,
           Account, Load, Unlock
  <2> QED
    BY <2>1, RacedGrows, OthersKept
<1>4. StepFits(cmd[p])
  BY DEF StepInv
<1> SUFFICES /\ cmd[p].step # "configWrite" \/ <<"config">> \in raced'
             /\ cmd'[p].step \notin ConfigSteps
             /\ Writing(p) => Writing(p)' /\ cmd'[p].job.key = cmd[p].job.key
             /\ ~HasSet(p)'
  BY <1>3, ConfigQuiet
<1>5. CASE Begin(p)
  <2>1. cmd[p].step = "idle" /\ cmd'[p].step = FirstStep(cmd'[p].job) /\ cmd'[p].job \in Job
    BY <1>5, BeginIs, VaultAssumption DEF Begin, At
  <2>2. cmd'[p].step \in {"account", "load", "config", "exists", "secret", "save"}
    BY <2>1 DEF FirstStep, Job, Kinds
  <2> QED
    BY <2>1, <2>2 DEF ConfigSteps, Writing, HasSet, At
<1>6. CASE Crash(p)
  <2>1. cmd'[p].step = "dead" /\ cmd'[p].job = cmd[p].job
    BY <1>6, GotoIs DEF Crash
  <2>2. cmd[p].step # "configWrite" \/ <<"config">> \in raced'
    BY <1>6 DEF Crash, At
  <2> QED
    BY <2>1, <2>2 DEF ConfigSteps, Writing, HasSet, At
<1>7. CASE Exists(p)
  <2>1. /\ cmd[p].step = "exists" /\ cmd'[p].job = cmd[p].job
        /\ \/ cmd'[p].step \in {"secret", "save"}
           \/ cmd'[p].step = "done" /\ cmd'[p].result \notin {"saved", "set"}
    <3>1. CASE \E result \in Results \ {"saved", "set"} : Finish(p, result)
      BY <1>7, <3>1, FinishIs DEF Exists, At
    <3>2. CASE Goto(p, "secret") \/ \E secret, from : WithSecret(p, secret, from)
      BY <1>7, <3>2, GotoIs, WithSecretIs DEF Exists, At
    <3> QED
      BY <1>7, <3>1, <3>2 DEF Exists, Results
  <2> QED
    BY <2>1 DEF ConfigSteps, Writing, HasSet, At
<1>8. CASE Secret(p) \/ Ensure(p) \/ PassOpen(p) \/ PassWrite(p)
  <2>1. /\ cmd[p].step \in {"secret", "ensure", "passOpen", "passWrite"} /\ cmd'[p].job = cmd[p].job
        /\ cmd'[p].step \in {"ensure", "passOpen", "passWrite", "save"}
    BY <1>8, GotoIs, WithSecretIs DEF Secret, Ensure, PassOpen, PassWrite, At
  <2> QED
    BY <2>1 DEF ConfigSteps, Writing, HasSet, At
<1>9. CASE Save(p) \/ WalletOpen(p)
  <2>1. /\ cmd[p].step \in {"save", "walletOpen"} /\ cmd'[p].job = cmd[p].job
        /\ \/ cmd'[p].step \in {"walletOpen", "walletWrite"}
           \/ cmd'[p].step = "done" /\ cmd'[p].result \notin {"saved", "set"}
    <3>1. CASE Save(p)
      BY <3>1, SaveIs
    <3>2. CASE WalletOpen(p)
      BY <3>2, GotoIs DEF WalletOpen, At
    <3> QED
      BY <1>9, <3>1, <3>2
  <2> QED
    BY <2>1 DEF ConfigSteps, Writing, HasSet, At
<1>10. CASE WalletWrite(p)
  <2>1. /\ cmd[p].step = "walletWrite" /\ cmd'[p].job = cmd[p].job
        /\ \/ cmd'[p].step = "config"
           \/ cmd'[p].step = "done" /\ cmd[p].job.kind # "init"
    BY <1>10, GotoIs, FinishIs DEF WalletWrite, At, Results
  <2>2. cmd[p].job.kind \in {"create", "createEth", "init"}
    BY <1>4, <2>1 DEF StepFits, Creating, WalletSteps
  <2> QED
    BY <2>1, <2>2 DEF ConfigSteps, Writing, HasSet, At
<1>11. CASE Account(p) \/ Unlock(p)
  <2>1. /\ cmd[p].step \in {"account", "unlock"} /\ cmd'[p].job.kind = cmd[p].job.kind
        /\ cmd'[p].step \in {"load", "done"}
    BY <1>11, AccountIs, UnlockIs DEF Account, Unlock, At
  <2>2. cmd[p].job.kind = "open"
    BY <1>4, <2>1 DEF StepFits
  <2> QED
    BY <2>1, <2>2 DEF ConfigSteps, Writing, HasSet, At
<1>12. CASE Load(p)
  <2>1. /\ cmd[p].step = "load" /\ cmd'[p].job = cmd[p].job
        /\ \/ cmd'[p].step \in {"unlock", "config"}
           \/ cmd'[p].step = "done" /\ cmd'[p].result \notin {"saved", "set"}
    BY <1>12, LoadIs DEF Load, At
  <2> QED
    BY <2>1 DEF ConfigSteps, Writing, HasSet, At
<1> QED
  BY <1>5, <1>6, <1>7, <1>8, <1>9, <1>10, <1>11, <1>12 DEF Acts
-----------------------------------------------------------------------------
(* The theorems                                                            *)

LEMMA InitVault == Init => IInv
<1> SUFFICES ASSUME Init
             PROVE  IInv
  OBVIOUS
<1>1. TypeOK /\ StepInv
  BY InitType, InitSteps
<1>2. \A p \in Commands : cmd[p].step = "idle" /\ cmd[p].from = "" /\ cmd[p].loaded = NoFile
  BY DEF Init
<1>3. NoFile.from = ""
  BY DEF NoFile
<1>4. \A w \in Paths : wallets[w] = NoFile
  BY DEF Init
<1>5. WalletInv
  BY <1>2 DEF WalletInv, WalletSteps, HasSaved, ConfigSteps
<1>6. PassInv
  BY <1>2, <1>3 DEF PassInv, PassSteps
<1>7. PassphraseKept
  BY <1>3, <1>4 DEF PassphraseKept
<1>8. FileWalletOpens
  BY <1>2 DEF FileWalletOpens, At
<1>9. ConfigInv
  BY <1>2 DEF ConfigInv, ConfigSteps, HasSet, At
<1> QED
  BY <1>1, <1>5, <1>6, <1>7, <1>8, <1>9 DEF IInv

LEMMA StepVault == IInv /\ [Next]_vars => IInv'
  BY StepType, StepsFit, WalletsFit, PassStep, OpensStep, ConfigStep DEF IInv

LEMMA VaultInvariant == Spec => []IInv
  BY InitVault, StepVault, PTL DEF Spec

\* A wallet that a command reported as saved keeps its key and its passphrase, whoever
\* crashed and whatever ran since, unless two commands were saving under its file at once.
THEOREM SavedWalletKept == Spec => []WalletKept
<1>1. IInv => WalletKept
  BY DEF IInv, WalletInv, WalletKept, HasSaved, At
<1> QED
  BY <1>1, VaultInvariant, PTL

\* The passphrase of a wallet stays in the file it was read from, unless two commands
\* generated one at once.
THEOREM PassphraseStays == Spec => []PassphraseKept
<1>1. IInv => PassphraseKept
  BY DEF IInv
<1> QED
  BY <1>1, VaultInvariant, PTL

\* A wallet encrypted with the passphrase of the file opens with it.
THEOREM FileWalletsOpen == Spec => []FileWalletOpens
<1>1. IInv => FileWalletOpens
  BY DEF IInv
<1> QED
  BY <1>1, VaultInvariant, PTL

\* A setting that a command reported stays until someone sets it again, whatever other
\* settings are updated, unless two updates overlapped or one died while writing.
THEOREM SettingsStay == Spec => []SettingsKept
<1>1. IInv => SettingsKept
  <2> SUFFICES ASSUME IInv, NEW p \in Commands,
                      Writing(p), At(p, "done"), cmd[p].result \in {"saved", "set"},
                      <<"config">> \notin raced,
                      \A q \in Commands \ {p} : Writing(q) => /\ cmd[q].job.key # cmd[p].job.key
                                                              /\ ~At(q, "configWrite")
               PROVE  config.state = "whole" /\ config.settings[cmd[p].job.key] = cmd[p].job.name
    BY DEF SettingsKept
  <2>1. HasSet(p)
    BY DEF HasSet
  <2>2. ASSUME NEW q \in Commands
        PROVE  ~At(q, "configWrite")
    <3>1. At(q, "configWrite") => Writing(q)
      BY DEF IInv, StepInv, StepFits, ConfigSteps, Writing, At
    <3> QED
      BY <3>1 DEF At
  <2> QED
    BY <2>1, <2>2 DEF IInv, ConfigInv
<1> QED
  BY <1>1, VaultInvariant, PTL
=============================================================================
