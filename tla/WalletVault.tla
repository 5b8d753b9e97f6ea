---------------------------- MODULE WalletVault ----------------------------
(***************************************************************************)
(* The files under ~/.vara-wallet that hold keys and settings, and the     *)
(* commands that several CLI processes run on them at once: wallet create, *)
(* import, default and keys, vara-eth:wallet, init, config set, and the    *)
(* signing commands that open a wallet (src/src/services/wallet-store.ts,  *)
(* config.ts, account.ts, vara-eth/account.ts, shared/keyring-eth).        *)
(*                                                                         *)
(* writeUserFile truncates a file and then fills it: two steps, between    *)
(* which other processes run and the process may die.  No command deletes. *)
(***************************************************************************)
CONSTANTS Commands,   \* CLI processes, each running one command
          Jobs,       \* what a command may be asked to do
          Names,      \* wallet names
          EthNames,   \* those the Ethereum store accepts
          sanitizeName, \* the file a native wallet of some name lives in
          Secrets,    \* passphrases typed or exported by users
          OwnSecret   \* passphrases/<name>.passphrase, written by hand; "" for none

Chains == {"vara", "vara-eth"}
Keys == Chains \cup {"network"}  \* the settings: a default account per chain, and others
Kinds == {"create", "createEth", "init", "default", "set", "open"}

\* flag: --passphrase; env: VARA_PASSPHRASE; "" stands for none, also as a name.
Job == [kind : Kinds, chain : Chains, key : Keys, name : Names \cup {""},
        flag : Secrets \cup {""}, env : Secrets \cup {""}, encrypted : BOOLEAN]

ASSUME VaultAssumption ==
  /\ EthNames \subseteq Names /\ sanitizeName \in [Names -> Names]
  /\ OwnSecret \in [Names -> Secrets \cup {""}]
  /\ "" \notin Names \cup Secrets \cup Commands /\ Secrets \cap Commands = {}
  /\ Jobs \subseteq Job
  /\ \A j \in Jobs : /\ j.name = "" => j.kind = "open"
                     /\ j.kind \in {"create", "createEth", "init", "default"} => j.key = j.chain
                     /\ j.kind = "createEth" => j.chain = "vara-eth"
                     /\ j.kind = "init" => j.chain = "vara" /\ ~j.encrypted
                     /\ j.chain = "vara-eth" /\ j.kind = "create" => j.encrypted

VARIABLES wallets,  \* the wallet files by chain and file name
          pass,     \* .passphrase
          config,   \* config.json
          raced,    \* files in which two commands met, or one died while writing settings
          cmd       \* cmd[p] : what process p is doing

vars == <<wallets, pass, config, raced, cmd>>

Paths == Chains \X Names
Passphrases == Secrets \cup Commands \cup {""}  \* a generated one is named by its generator
FileStates == {"absent", "empty", "whole"}
NoSettings == [k \in Keys |-> ""]

\* The key in a wallet file is named by the process that made it; from: where
\* its passphrase came from.
WalletFile == [state : FileStates, key : Commands \cup {""}, secret : Passphrases,
               from : {"file", "user", ""}]
PassFile == [state : FileStates, secret : Passphrases]
ConfigFile == [state : FileStates, settings : [Keys -> Names \cup {""}]]
Steps == {"idle", "exists", "secret", "ensure", "passOpen", "passWrite", "save", "walletOpen",
          "walletWrite", "config", "configOpen", "configWrite", "account", "load", "unlock",
          "done", "dead"}
Results == {"", "saved", "set", "opened", "WALLET_EXISTS", "WALLET_NOT_FOUND", "WALLET_CORRUPTED",
            "INVALID_WALLET_NAME", "NO_PASSPHRASE", "PASSPHRASE_REQUIRED", "WRONG_PASSPHRASE",
            "DECRYPT_FAILED", "NO_ACCOUNT"}
Command == [step : Steps, job : Job, secret : Passphrases, from : {"file", "user", ""},
            loaded : WalletFile, read : [Keys -> Names \cup {""}], result : Results]

TypeOK == /\ wallets \in [Paths -> WalletFile]
          /\ pass \in PassFile
          /\ config \in ConfigFile
          /\ raced \subseteq Paths \cup {<<"pass">>, <<"config">>}
          /\ cmd \in [Commands -> Command]
          /\ \A p \in Commands :   \* no command reaches a file without a name
               cmd[p].job.name = "" => cmd[p].step \in {"idle", "account", "done", "dead"}

At(p, step) == cmd[p].step = step
Become(p, c) == cmd' = [cmd EXCEPT ![p] = c]
Goto(p, step) == Become(p, [cmd[p] EXCEPT !.step = step])
Finish(p, result) == Become(p, [cmd[p] EXCEPT !.step = "done", !.result = result])

\* walletPath, varaEthWalletPath
Path(j) == <<j.chain, IF j.chain = "vara" THEN sanitizeName[j.name] ELSE j.name>>
Mine(p) == Path(cmd[p].job)

\* Someone else is between looking at a file and having written it.
Inside(p, steps) == {q \in Commands \ {p} : cmd[q].step \in steps}
Race(file, rivals) == raced' = IF rivals = {} THEN raced ELSE raced \cup {file}
-----------------------------------------------------------------------------
(* The passphrase of a new wallet: resolveNewWalletPassphrase, which takes *)
(* the file before VARA_PASSPHRASE, and ensurePassphraseFile               *)

WithSecret(p, secret, from) ==
  Become(p, [cmd[p] EXCEPT !.step = "save", !.secret = secret, !.from = from])

Secret(p) == LET j == cmd[p].job IN
  /\ At(p, "secret")
  /\ CASE j.flag # "" -> WithSecret(p, j.flag, "user")
       [] j.flag = "" /\ pass.state = "whole" -> WithSecret(p, pass.secret, "file")
       [] j.flag = "" /\ pass.state # "whole" /\ j.env # "" -> WithSecret(p, j.env, "user")
       [] OTHER -> Goto(p, "ensure")
  /\ UNCHANGED <<wallets, pass, config, raced>>

\* Mutation: a passphrase is generated whether or not there is one.
EnsureAlways(p) == /\ At(p, "ensure")
                   /\ Goto(p, "passOpen")
                   /\ Race(<<"pass">>, Inside(p, {"passOpen", "passWrite"}))
                   /\ UNCHANGED <<wallets, pass, config>>

\* The file is read again; an empty one counts as missing.
Ensure(p) == /\ At(p, "ensure")
             /\ IF pass.state = "whole"
                  THEN WithSecret(p, pass.secret, "file") /\ UNCHANGED raced
                  ELSE /\ Goto(p, "passOpen")
                       /\ Race(<<"pass">>, Inside(p, {"passOpen", "passWrite"}))
             /\ UNCHANGED <<wallets, pass, config>>

PassOpen(p) == /\ At(p, "passOpen")
               /\ pass' = [state |-> "empty", secret |-> ""]
               /\ Goto(p, "passWrite")
               /\ UNCHANGED <<wallets, config, raced>>

PassWrite(p) == /\ At(p, "passWrite")
                /\ pass' = [state |-> "whole", secret |-> p]
                /\ WithSecret(p, p, "file")
                /\ UNCHANGED <<wallets, config, raced>>
-----------------------------------------------------------------------------
(* Creating a wallet: saveWallet, saveEthexeWallet                         *)

\* The Ethereum commands look for the file before they ask for a passphrase.
Exists(p) == LET j == cmd[p].job IN
  /\ At(p, "exists")
  /\ CASE j.name \notin EthNames -> Finish(p, "INVALID_WALLET_NAME")
       [] j.name \in EthNames /\ wallets[Mine(p)].state # "absent" -> Finish(p, "WALLET_EXISTS")
       [] OTHER -> IF j.kind = "create" THEN Goto(p, "secret")
                   ELSE IF j.flag # "" THEN WithSecret(p, j.flag, "user")
                   ELSE IF j.env # "" THEN WithSecret(p, j.env, "user")
                   ELSE Finish(p, "NO_PASSPHRASE")
  /\ UNCHANGED <<wallets, pass, config, raced>>

\* Mutation: the file is not looked for again when the wallet is saved.
SaveUnchecked(p) == /\ At(p, "save")
                    /\ Goto(p, "walletOpen")
                    /\ Race(Mine(p), {q \in Inside(p, {"walletOpen", "walletWrite"}) : Mine(q) = Mine(p)})
                    /\ UNCHANGED <<wallets, pass, config>>

\* Key and encryption are ready; the file is looked for (again).
Save(p) == /\ At(p, "save")
           /\ IF wallets[Mine(p)].state # "absent"
                THEN Finish(p, "WALLET_EXISTS") /\ UNCHANGED raced
                ELSE /\ Goto(p, "walletOpen")
                     /\ Race(Mine(p), {q \in Inside(p, {"walletOpen", "walletWrite"}) : Mine(q) = Mine(p)})
           /\ UNCHANGED <<wallets, pass, config>>

WalletOpen(p) == /\ At(p, "walletOpen")
                 /\ wallets' = [wallets EXCEPT ![Mine(p)] =
                                  [state |-> "empty", key |-> "", secret |-> "", from |-> ""]]
                 /\ Goto(p, "walletWrite")
                 /\ UNCHANGED <<pass, config, raced>>

Saved(p) == [state |-> "whole", key |-> p, secret |-> cmd[p].secret, from |-> cmd[p].from]

WalletWrite(p) == /\ At(p, "walletWrite")
                  /\ wallets' = [wallets EXCEPT ![Mine(p)] = Saved(p)]
                  /\ IF cmd[p].job.kind = "init" THEN Goto(p, "config") ELSE Finish(p, "saved")
                  /\ UNCHANGED <<pass, config, raced>>
-----------------------------------------------------------------------------
(* Settings: updateConfig, and writeConfig in init                         *)

\* readConfig: what cannot be parsed reads as no settings at all.
Settings == IF config.state = "whole" THEN config.settings ELSE NoSettings

ReadConfig(p) == /\ At(p, "config")
                 /\ Become(p, [cmd[p] EXCEPT !.step = "configOpen", !.read = Settings])
                 /\ Race(<<"config">>, Inside(p, {"configOpen", "configWrite"}))
                 /\ UNCHANGED <<wallets, pass, config>>

ConfigOpen(p) == /\ At(p, "configOpen")
                 /\ config' = [state |-> "empty", settings |-> NoSettings]
                 /\ Goto(p, "configWrite")
                 /\ UNCHANGED <<wallets, pass, raced>>

\* Mutation: the settings that were read are not written back.
UpdatesOnly(settings, j) == [NoSettings EXCEPT ![j.key] = j.name]

\* { ...config, ...updates }
Updated(settings, j) == [settings EXCEPT ![j.key] = j.name]

ConfigWrite(p) == /\ At(p, "configWrite")
                  /\ config' = [state |-> "whole",
                                settings |-> Updated(cmd[p].read, cmd[p].job)]
                  /\ Finish(p, IF cmd[p].job.kind = "init" THEN "saved" ELSE "set")
                  /\ UNCHANGED <<wallets, pass, raced>>
-----------------------------------------------------------------------------
(* Opening a wallet to sign or to show its key                             *)

\* Mutation: the name in the settings is used even when there is none.
AccountUnchecked(p) ==
  /\ At(p, "account")
  /\ Become(p, [cmd[p] EXCEPT !.step = "load", !.job.name = Settings[cmd[p].job.chain]])
  /\ UNCHANGED <<wallets, pass, config, raced>>

\* Without --account the settings name the wallet: resolveAccount,
\* resolveEthexeAccountName.
Account(p) ==
  LET j == cmd[p].job
      Named(n) == Become(p, [cmd[p] EXCEPT !.step = "load", !.job.name = n])
      native == Settings["vara"]
  IN  /\ At(p, "account")
      /\ IF Settings[j.chain] # "" THEN Named(Settings[j.chain])
         ELSE IF j.chain = "vara" \/ native = "" THEN Finish(p, "NO_ACCOUNT")
         ELSE IF native \notin EthNames THEN Finish(p, "INVALID_WALLET_NAME")
         ELSE IF wallets[<<"vara-eth", native>>].state # "absent" THEN Named(native)
         ELSE Finish(p, "NO_ACCOUNT")
      /\ UNCHANGED <<wallets, pass, config, raced>>

\* loadWallet, loadEthexeWallet
Load(p) ==
  LET j == cmd[p].job
      file == wallets[Mine(p)]
  IN  /\ At(p, "load")
      /\ IF j.chain = "vara-eth" /\ j.name \notin EthNames THEN Finish(p, "INVALID_WALLET_NAME")
         ELSE IF file.state = "absent" THEN Finish(p, "WALLET_NOT_FOUND")
         ELSE IF file.state = "empty" THEN Finish(p, "WALLET_CORRUPTED")
         ELSE IF j.kind = "default" THEN Goto(p, "config")
         ELSE Become(p, [cmd[p] EXCEPT !.step = "unlock", !.loaded = file])
      /\ UNCHANGED <<wallets, pass, config, raced>>

\* Mutation: the environment comes before the file, as on the Ethereum side.
resolvePassphraseEnvFirst(env) == IF env # "" THEN env ELSE pass.secret

\* resolvePassphrase: the file, then VARA_PASSPHRASE.
resolvePassphrase(env) == IF pass.state = "whole" THEN pass.secret ELSE env

\* resolveEthexePassphrase: the flag, VARA_PASSPHRASE, the wallet's own file, then
\* the file.  An empty file is a passphrase here.
EthSecret(j) == IF j.flag # "" THEN j.flag
                ELSE IF j.env # "" THEN j.env
                ELSE IF OwnSecret[j.name] # "" THEN OwnSecret[j.name]
                ELSE pass.secret

Unlock(p) ==
  LET j == cmd[p].job
      file == cmd[p].loaded
      native == resolvePassphrase(j.env)
  IN  /\ At(p, "unlock")
      /\ Finish(p,
           IF j.chain = "vara"
             THEN IF file.secret = "" THEN "opened"
                  ELSE IF native = "" THEN "PASSPHRASE_REQUIRED"
                  ELSE IF native = file.secret THEN "opened" ELSE "DECRYPT_FAILED"
             ELSE IF EthSecret(j) = file.secret THEN "opened"
                  ELSE IF EthSecret(j) = "" /\ pass.state = "absent" THEN "NO_PASSPHRASE"
                  ELSE "WRONG_PASSPHRASE")
      /\ UNCHANGED <<wallets, pass, config, raced>>
-----------------------------------------------------------------------------
(* Commands begin, and die                                                 *)

FirstStep(j) == CASE j.kind = "open" /\ j.name = "" -> "account"
                  [] j.kind = "open" /\ j.name # "" -> "load"
                  [] j.kind = "default" -> "load"
                  [] j.kind = "set" -> "config"
                  [] j.kind \in {"create", "createEth"} /\ j.chain = "vara-eth" -> "exists"
                  [] j.kind = "create" /\ j.chain = "vara" /\ j.encrypted -> "secret"
                  [] OTHER -> "save"

Begin(p) == /\ At(p, "idle")
            /\ \E j \in Jobs : Become(p, [cmd[p] EXCEPT !.step = FirstStep(j), !.job = j])
            /\ UNCHANGED <<wallets, pass, config, raced>>

\* A process killed between truncating and filling config.json leaves no settings.
Crash(p) == /\ cmd[p].step \notin {"idle", "done", "dead"}
            /\ Goto(p, "dead")
            /\ raced' = IF At(p, "configWrite") THEN raced \cup {<<"config">>} ELSE raced
            /\ UNCHANGED <<wallets, pass, config>>

NoJob == [kind |-> "open", chain |-> "vara", key |-> "vara", name |-> "", flag |-> "",
          env |-> "", encrypted |-> FALSE]
NoFile == [state |-> "absent", key |-> "", secret |-> "", from |-> ""]

\* A first run: nothing is there, or a passphrase file the user wrote.
Init == /\ wallets = [w \in Paths |-> NoFile]
        /\ pass \in {[state |-> "absent", secret |-> ""]}
                    \cup [state : {"whole"}, secret : Secrets]
        /\ config = [state |-> "absent", settings |-> NoSettings]
        /\ raced = {}
        /\ cmd = [p \in Commands |-> [step |-> "idle", job |-> NoJob, secret |-> "", from |-> "",
                                      loaded |-> NoFile, read |-> NoSettings, result |-> ""]]

Next == \E p \in Commands :
          \/ Begin(p) \/ Crash(p)
          \/ Exists(p) \/ Secret(p) \/ Ensure(p) \/ PassOpen(p) \/ PassWrite(p)
          \/ Save(p) \/ WalletOpen(p) \/ WalletWrite(p)
          \/ ReadConfig(p) \/ ConfigOpen(p) \/ ConfigWrite(p)
          \/ Account(p) \/ Load(p) \/ Unlock(p)

Spec == Init /\ [][Next]_vars
-----------------------------------------------------------------------------
(* Correctness                                                             *)

\* A wallet that a command reported as saved keeps its key and its passphrase,
\* whoever crashed and whatever ran since, unless two commands were saving under
\* the same file at once: the check and the write are not one step.
WalletKept == \A p \in Commands :
  (At(p, "done") /\ cmd[p].result = "saved" /\ Mine(p) \notin raced) => wallets[Mine(p)] = Saved(p)

\* The passphrase a wallet was encrypted with stays in the file it was read
\* from, unless two commands generated one at once.
PassphraseKept == \A w \in Paths :
  (wallets[w].from = "file" /\ <<"pass">> \notin raced)
    => pass = [state |-> "whole", secret |-> wallets[w].secret]

\* A wallet encrypted with the passphrase of the file opens: a native one in every
\* environment (README:112, the file is the primary source), an Ethereum one where
\* nothing of a higher priority is given.
FileWalletOpens == \A p \in Commands : LET j == cmd[p].job IN
  (/\ cmd[p].loaded.from = "file" /\ <<"pass">> \notin raced
   /\ j.chain = "vara" \/ (j.flag = "" /\ j.env = "" /\ OwnSecret[j.name] = ""))
    => ~At(p, "done") \/ cmd[p].result = "opened"

\* A setting that a command reported stays until someone sets it again: no
\* update of other settings loses it, unless two updates overlapped or one died
\* while writing.
Writing(p) == cmd[p].job.kind \in {"set", "default", "init"} /\ ~At(p, "idle")
SettingsKept == \A p \in Commands :
  (/\ Writing(p) /\ At(p, "done") /\ cmd[p].result \in {"saved", "set"}
   /\ <<"config">> \notin raced
   /\ \A q \in Commands \ {p} : Writing(q) => cmd[q].job.key # cmd[p].job.key
                                              /\ ~At(q, "configWrite"))
    => config.state = "whole" /\ config.settings[cmd[p].job.key] = cmd[p].job.name
=============================================================================
