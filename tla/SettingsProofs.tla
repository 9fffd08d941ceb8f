---------------------------- MODULE SettingsProofs ----------------------------
(***************************************************************************)
(* What is stored, what runs and what is lost, for every set of servers,   *)
(* ports and types a form may hold, wherever a restart falls.              *)
(***************************************************************************)
EXTENDS Settings, TLAPS

-----------------------------------------------------------------------------
(* The inductive invariant *)

\* What cgiSettings has still to write of the form it is saving.
FormInv ==
  /\ http_pc # "idle" => main_pc \in {"client", "up"} /\ ~loaded
  /\ nvs.server # Unset => nvs.exists
  /\ wanted # Unset =>
       /\ http_pc = "idle" => nvs = wanted
       /\ http_pc # "idle" => nvs.exists /\ wanted.exists
       /\ http_pc = "server" => wanted = Asked(nvs, form)
       /\ http_pc \in {"type", "port"} =>
            wanted.server = nvs.server /\ wanted.port = OrElse(form.port, DefaultPort)
       /\ http_pc = "type" => wanted.server_type = Asked(nvs, form).server_type
       /\ http_pc = "port" => wanted.server_type = nvs.server_type
  /\ http_pc # "idle" => nvs.exists

\* What app_main has made of the flash since load_config.
LoadedInv ==
  /\ loaded => main_pc \in {"tasks", "wifi", "httpd", "client", "up"}
  /\ loaded /\ (nvs_ok \/ main_pc \notin {"tasks", "wifi"}) /\ nvs.server # Unset
       => dsc_config = ConfigFrom(nvs)
  /\ main_pc = "up" => client = dsc_config.server_type

\* Up to ten seconds the count is the time the button has been down.
ButtonInv == pressed < 11 => reset_button = pressed

IInv == TypeOK /\ FormInv /\ LoadedInv /\ ButtonInv

-----------------------------------------------------------------------------
(* Types *)

\* What is read of a valid namespace is valid.
LEMMA ConfigTypes ==
  ASSUME NEW keys \in Stored
  PROVE  ConfigFrom(keys) \in Config /\ ConfigFrom(keys).server_type \in ServerType
<1>1. OrElse(keys.port, DefaultPort) \in Nat
  BY SettingsAssumption DEF Stored, Opt, OrElse
<1>2. OrElse(keys.server_type, "TCP") \in ServerType
  BY DEF Stored, Opt, OrElse, ServerType
<1>3. keys.server \in Opt(Servers)
  BY DEF Stored
<1>4. QED
  BY <1>1, <1>2, <1>3 DEF ConfigFrom, Config, Opt

\* What a form asks for is valid, field by field.
LEMMA AskedTypes ==
  ASSUME NEW keys \in Stored, NEW f \in Form \cup {NoForm}
  PROVE  /\ Asked(keys, f) \in Stored
         /\ OrElse(f.server, keys.server) \in Opt(Servers)
         /\ Asked(keys, f).server_type \in Opt(ServerType)
         /\ OrElse(f.port, DefaultPort) \in Opt(Ports \cup {DefaultPort})
<1>1. OrElse(f.server, keys.server) \in Opt(Servers)
  BY DEF Stored, Form, NoForm, Opt, OrElse
<1>2. Asked(keys, f).server_type \in Opt(ServerType)
  BY DEF Stored, Opt, ServerType, Asked
<1>3. OrElse(f.port, DefaultPort) \in Opt(Ports \cup {DefaultPort})
  BY DEF Form, NoForm, Opt, OrElse
<1>4. QED
  BY <1>1, <1>2, <1>3 DEF Asked, Stored

LEMMA ConstantTypes ==
  /\ \A exists \in BOOLEAN : Namespace(exists) \in Stored
  /\ ZeroConfig \in Config /\ DefaultConfig \in Config
BY SettingsAssumption DEF Namespace, Stored, Opt, ZeroConfig, DefaultConfig, Config, ServerType

\* The count wraps below ButtonMod, and not within ten seconds.
LEMMA Counting ==
  ASSUME NEW n \in 0 .. ButtonMod - 1
  PROVE  /\ NextCount(n) \in 0 .. ButtonMod - 1
         /\ n < 11 => NextCount(n) = n + 1
<1>1. ButtonMod \in Nat /\ ButtonMod > 11
  BY SettingsAssumption
<1>2. QED
  BY <1>1 DEF NextCount

-----------------------------------------------------------------------------
(* The steps *)

\* A restart forgets all but the flash.
LEMMA RestartStep ==
  ASSUME IInv, Restart, nvs' = nvs, ota' \in {"app", "factory"}
  PROVE  IInv'
<1>1. TypeOK'
  <2>1. nvs' \in Stored /\ wanted' \in Stored
    BY DEF IInv, TypeOK, Restart
  <2>2. reset_button' \in 0 .. ButtonMod - 1 /\ pressed' \in 0 .. 11
    BY SettingsAssumption DEF Restart
  <2>3. QED
    BY <2>1, <2>2, ConstantTypes DEF IInv, TypeOK, Restart, Opt
<1>2. FormInv'
  BY DEF IInv, FormInv, Restart
<1>3. LoadedInv' /\ ButtonInv'
  BY DEF Restart, LoadedInv, ButtonInv
<1>4. QED
  BY <1>1, <1>2, <1>3 DEF IInv

LEMMA LoadStep ==
  ASSUME IInv, Load
  PROVE  IInv'
<1>1. nvs_ok' \in BOOLEAN
  BY DEF Load
<1>2. dsc_config' \in Config
  BY ConstantTypes, ConfigTypes DEF IInv, TypeOK, Load
<1>3. TypeOK'
  BY <1>1, <1>2 DEF IInv, TypeOK, Load, httpVars
<1>4. FormInv'
  BY DEF IInv, FormInv, Load, httpVars
<1>5. LoadedInv'
  BY DEF IInv, FormInv, LoadedInv, Load, ConfigFrom
<1>6. ButtonInv'
  BY DEF IInv, ButtonInv, Load
<1>7. QED
  BY <1>3, <1>4, <1>5, <1>6 DEF IInv

\* The tasks, the WiFi and the client are started.
LEMMA StartStep ==
  ASSUME IInv, StartTasks \/ SetupHttpd \/ StartClient
  PROVE  IInv'
<1> USE DEF StartTasks, SetupHttpd, StartClient, httpVars
<1>1. TypeOK'
  BY DEF IInv, TypeOK, Opt, Config
<1>2. FormInv'
  BY DEF IInv, FormInv
<1>3. LoadedInv'
  BY DEF IInv, LoadedInv, ConfigFrom
<1>4. ButtonInv'
  BY DEF IInv, ButtonInv
<1>5. QED
  BY <1>1, <1>2, <1>3, <1>4 DEF IInv

LEMMA StartWifiStep ==
  ASSUME IInv, StartWifi
  PROVE  IInv'
<1>1. nvs' \in Stored /\ wanted' \in Stored \cup {Unset}
  BY ConstantTypes DEF IInv, TypeOK, StartWifi
<1>2. TypeOK'
  BY <1>1 DEF IInv, TypeOK, StartWifi
<1>3. FormInv'
  BY DEF IInv, FormInv, StartWifi, Namespace
<1>4. LoadedInv'
  BY DEF IInv, TypeOK, LoadedInv, StartWifi, Namespace, ConfigFrom
<1>5. ButtonInv'
  BY DEF IInv, ButtonInv, StartWifi
<1>6. QED
  BY <1>2, <1>3, <1>4, <1>5 DEF IInv

LEMMA WifiStep ==
  ASSUME IInv, GotIp \/ Disconnected
  PROVE  IInv'
<1> USE DEF GotIp, Disconnected, httpVars
<1>1. TypeOK'
  BY DEF IInv, TypeOK
<1>2. FormInv'
  BY DEF IInv, FormInv
<1>3. LoadedInv'
  BY DEF IInv, LoadedInv, ConfigFrom
<1>4. ButtonInv'
  BY DEF IInv, ButtonInv
<1>5. QED
  BY <1>1, <1>2, <1>3, <1>4 DEF IInv

\* A form opens the namespace for writing.
LEMMA OpenStep ==
  ASSUME IInv, NEW f \in Form, OpenSettings(f)
  PROVE  IInv'
<1>1. nvs \in Stored /\ nvs' = [nvs EXCEPT !.exists = TRUE] /\ nvs' \in Stored
  BY DEF IInv, TypeOK, OpenSettings, Stored
<1>2. wanted' \in Stored
  BY <1>1, AskedTypes DEF OpenSettings
<1>3. TypeOK'
  BY <1>1, <1>2 DEF IInv, TypeOK, OpenSettings
<1>4. wanted' = Asked(nvs', form')
  BY <1>1 DEF OpenSettings, Asked, Stored
<1>5. FormInv'
  BY <1>1, <1>4 DEF OpenSettings, FormInv, Asked, Stored
<1>6. LoadedInv' /\ ButtonInv'
  BY DEF IInv, LoadedInv, ButtonInv, OpenSettings
<1>7. QED
  BY <1>3, <1>5, <1>6 DEF IInv

\* One setting is written; the others stay as they are.
LEMMA SetStep ==
  ASSUME IInv, SetServer \/ SetServerType \/ SetPort
  PROVE  IInv'
<1>1. /\ nvs \in Stored /\ form \in Form \cup {NoForm}
      /\ http_pc # "idle" /\ ~loaded /\ main_pc \in {"client", "up"} /\ nvs.exists
  BY DEF IInv, TypeOK, FormInv, SetServer, SetServerType, SetPort
<1>2. UNCHANGED <<ota, main_pc, nvs_ok, dsc_config, wifi, client, form, wanted,
                  reset_button, pressed, loaded>>
  BY DEF SetServer, SetServerType, SetPort, SetKeys
<1>3. LoadedInv' /\ ButtonInv'
  BY <1>1, <1>2 DEF IInv, LoadedInv, ButtonInv
<1>4. CASE SetServer
  <2>1. /\ http_pc = "server" /\ http_pc' = "type"
        /\ nvs' = [nvs EXCEPT !.server = OrElse(form.server, nvs.server)]
    BY <1>4 DEF SetServer, SetKeys
  <2>2. nvs' \in Stored
    BY <1>1, <2>1, AskedTypes DEF Stored
  <2>3. TypeOK'
    BY <1>2, <2>1, <2>2 DEF IInv, TypeOK
  <2>4. FormInv'
    BY <1>1, <1>2, <2>1 DEF IInv, FormInv, Asked, Stored
  <2>5. QED
    BY <1>3, <2>3, <2>4 DEF IInv
<1>5. CASE SetServerType
  <2>1. /\ http_pc = "type" /\ http_pc' = "port"
        /\ nvs' = [nvs EXCEPT !.server_type = Asked(nvs, form).server_type]
    BY <1>5 DEF SetServerType, SetKeys
  <2>2. nvs' \in Stored
    BY <1>1, <2>1, AskedTypes DEF Stored
  <2>3. TypeOK'
    BY <1>2, <2>1, <2>2 DEF IInv, TypeOK
  <2>4. FormInv'
    BY <1>1, <1>2, <2>1 DEF IInv, FormInv, Stored
  <2>5. QED
    BY <1>3, <2>3, <2>4 DEF IInv
<1>6. CASE SetPort
  <2>1. /\ http_pc = "port" /\ http_pc' = "idle"
        /\ nvs' = [nvs EXCEPT !.port = OrElse(form.port, DefaultPort)]
    BY <1>6 DEF SetPort, SetKeys
  <2>2. nvs' \in Stored
    BY <1>1, <2>1, AskedTypes DEF Stored
  <2>3. TypeOK'
    BY <1>2, <2>1, <2>2 DEF IInv, TypeOK
  <2>4. wanted # Unset => nvs' = wanted
    <3>1. SUFFICES ASSUME wanted # Unset PROVE nvs' = wanted
      OBVIOUS
    <3>2. /\ wanted.exists = nvs'.exists /\ wanted.server = nvs'.server
          /\ wanted.server_type = nvs'.server_type /\ wanted.port = nvs'.port
      BY <1>1, <2>1, <3>1 DEF IInv, TypeOK, FormInv, Stored
    <3>3. wanted \in Stored
      BY <3>1 DEF IInv, TypeOK
    <3>4. QED
      BY <2>2, <3>2, <3>3 DEF Stored
  <2>5. FormInv'
    BY <1>1, <1>2, <2>1, <2>4 DEF IInv, FormInv, Stored
  <2>6. QED
    BY <1>3, <2>3, <2>5 DEF IInv
<1>7. QED
  BY <1>4, <1>5, <1>6

LEMMA ButtonStep ==
  ASSUME IInv, ButtonDown \/ ButtonUp \/ ButtonErase
  PROVE  IInv'
<1>1. reset_button \in 0 .. ButtonMod - 1 /\ pressed \in 0 .. 11 /\ 0 \in 0 .. ButtonMod - 1
  BY SettingsAssumption DEF IInv, TypeOK
<1>2. CASE ButtonDown
  <2>1. /\ reset_button' \in 0 .. ButtonMod - 1 /\ pressed' \in 0 .. 11
        /\ pressed' < 11 => reset_button' = pressed'
    BY <1>1, <1>2, Counting DEF IInv, ButtonInv, ButtonDown, UpTo
  <2>2. UNCHANGED <<nvs, ota, main_pc, nvs_ok, dsc_config, wifi, client, httpVars, loaded>>
    BY <1>2 DEF ButtonDown
  <2>3. TypeOK'
    BY <2>1, <2>2 DEF IInv, TypeOK, httpVars
  <2>4. FormInv' /\ LoadedInv'
    BY <2>2 DEF IInv, FormInv, LoadedInv, httpVars, ConfigFrom
  <2>5. QED
    BY <2>1, <2>3, <2>4 DEF IInv, ButtonInv
<1>3. CASE ButtonUp
  <2>1. reset_button' = 0 /\ pressed' = 0
    BY <1>3 DEF ButtonUp, Released
  <2>2. UNCHANGED <<nvs, ota, main_pc, nvs_ok, dsc_config, wifi, client, httpVars, loaded>>
    BY <1>3 DEF ButtonUp
  <2>3. TypeOK'
    BY <1>1, <2>1, <2>2 DEF IInv, TypeOK, httpVars
  <2>4. FormInv' /\ LoadedInv'
    BY <2>2 DEF IInv, FormInv, LoadedInv, httpVars, ConfigFrom
  <2>5. QED
    BY <2>1, <2>3, <2>4 DEF IInv, ButtonInv
<1>4. CASE ButtonErase
  <2>1. /\ nvs' = Namespace(TRUE) /\ nvs' \in Stored
        /\ wanted' = (IF http_pc = "idle" THEN nvs' ELSE Unset)
        /\ reset_button' = 0 /\ pressed' = 0 /\ loaded' = FALSE
        /\ UNCHANGED <<ota, main_pc, nvs_ok, dsc_config, wifi, client, http_pc, form>>
    BY <1>4, ConstantTypes DEF ButtonErase, Released
  <2>2. TypeOK'
    <3>1. wanted' \in Stored \cup {Unset}
      BY <2>1
    <3>2. http_pc' \in {"idle", "server", "type", "port"} /\ form' \in Form \cup {NoForm}
      BY <2>1 DEF IInv, TypeOK
    <3>3. reset_button' \in 0 .. ButtonMod - 1 /\ pressed' \in 0 .. 11
      BY <1>1, <2>1
    <3>4. /\ ota' \in {"app", "factory"}
          /\ main_pc' \in {"load", "tasks", "wifi", "httpd", "client", "up", "factory"}
          /\ nvs_ok' \in BOOLEAN /\ dsc_config' \in Config
          /\ wifi' \in BOOLEAN /\ client' \in Opt(ServerType) /\ loaded' \in BOOLEAN
      BY <2>1 DEF IInv, TypeOK
    <3>5. QED
      BY <2>1, <3>1, <3>2, <3>3, <3>4 DEF TypeOK
  <2>3. FormInv'
    BY <2>1 DEF IInv, FormInv, Namespace
  <2>4. LoadedInv' /\ ButtonInv'
    BY <2>1 DEF IInv, LoadedInv, ButtonInv
  <2>5. QED
    BY <2>2, <2>3, <2>4 DEF IInv
<1>5. QED
  BY <1>2, <1>3, <1>4

\* It holds in the states the device is switched on in.
LEMMA SettingsInit == Init => IInv
<1> SUFFICES ASSUME Init PROVE IInv
  OBVIOUS
<1>1. TypeOK
  <2>1. 0 \in 0 .. ButtonMod - 1
    BY SettingsAssumption
  <2>2. /\ nvs \in Stored /\ wanted \in Stored \cup {Unset} /\ dsc_config \in Config
        /\ form \in Form \cup {NoForm} /\ client \in Opt(ServerType)
    BY ConstantTypes DEF Init, Opt
  <2>3. reset_button \in 0 .. ButtonMod - 1 /\ pressed \in 0 .. 11
    BY <2>1 DEF Init
  <2>4. /\ ota = "app" /\ main_pc = "load" /\ http_pc = "idle"
        /\ nvs_ok = TRUE /\ wifi = FALSE /\ loaded = FALSE
    BY DEF Init
  <2>5. QED
    BY <2>2, <2>3, <2>4 DEF TypeOK
<1>2. FormInv
  BY DEF Init, FormInv, Namespace
<1>3. LoadedInv /\ ButtonInv
  BY DEF Init, LoadedInv, ButtonInv
<1>4. QED
  BY <1>1, <1>2, <1>3 DEF IInv

LEMMA SettingsStep == IInv /\ [Next]_vars => IInv'
<1> SUFFICES ASSUME IInv, [Next]_vars PROVE IInv'
  OBVIOUS
<1>1. CASE AppMain
  BY <1>1, LoadStep, StartStep, StartWifiStep DEF AppMain
<1>2. CASE Http
  <2>1. ASSUME NEW factory \in BOOLEAN, Reboot(factory)
        PROVE  IInv'
    <3>1. nvs' = nvs /\ ota' \in {"app", "factory"} /\ Restart
      BY <2>1 DEF Reboot, IInv, TypeOK
    <3>2. QED
      BY <3>1, RestartStep
  <2>2. QED
    BY <1>2, <2>1, OpenStep, SetStep DEF Http
<1>3. CASE Button
  <2>1. CASE ButtonFactory
    BY <2>1, RestartStep DEF ButtonFactory
  <2>2. QED
    BY <1>3, <2>1, ButtonStep DEF Button
<1>4. CASE GotIp \/ Disconnected
  BY <1>4, WifiStep
<1>5. CASE DispatchMsg \/ PowerCut
  <2>1. nvs' = nvs /\ ota' \in {"app", "factory"} /\ Restart
    BY <1>5 DEF DispatchMsg, PowerCut, IInv, TypeOK
  <2>2. QED
    BY <2>1, RestartStep
<1>6. CASE FactoryDone
  BY <1>6, RestartStep DEF FactoryDone
<1>7. CASE UNCHANGED vars
  BY <1>7 DEF vars, httpVars, IInv, TypeOK, FormInv, LoadedInv, ButtonInv, ConfigFrom
<1>8. QED
  BY <1>1, <1>2, <1>3, <1>4, <1>5, <1>6, <1>7 DEF Next

-----------------------------------------------------------------------------
(* The theorems *)

\* The inductive invariant holds throughout; the theorems below read their properties off it.
LEMMA SettingsInv == Spec => []IInv
BY SettingsInit, SettingsStep, PTL DEF Spec

\* cgiSettings: a form that was saved to its end is what is in flash, until the button or a
\* full flash erases it, wherever restarts fell into forms before it.
THEOREM SettingsSavedAsAsked == Spec => []SavedAsAsked
<1>1. IInv => SavedAsAsked
  BY DEF IInv, FormInv, SavedAsAsked
<1>2. QED
  BY <1>1, SettingsInv, PTL

\* load_config and app_main: as long as nothing is saved or erased after a start, the device
\* runs what is stored.
THEOREM SettingsRunsWhatIsStored == Spec => []RunsWhatIsStored
<1>1. IInv => RunsWhatIsStored
  <2>1. ASSUME IInv, main_pc = "up", loaded, nvs.server # Unset
        PROVE  dsc_config = ConfigFrom(nvs) /\ client = dsc_config.server_type
    BY <2>1 DEF IInv, LoadedInv
  <2>2. QED
    BY <2>1 DEF IInv, RunsWhatIsStored, ConfigFrom
<1>2. QED
  BY <1>1, SettingsInv, PTL

\* config_task: a server in flash is lost only to a press of more than ten seconds without a
\* break, although the count is a byte that wraps, or to a full flash at start-up.
THEOREM SettingsLostOnlyToLongPress == Spec => LostOnlyToLongPress
<1>1. IInv /\ [Next]_vars
        => [nvs.server # Unset /\ nvs'.server = Unset => pressed > 10 \/ ~nvs_ok]_vars
  <2> SUFFICES ASSUME IInv, [Next]_vars, nvs.server # Unset, nvs'.server = Unset
               PROVE  pressed > 10 \/ ~nvs_ok
    OBVIOUS
  <2>1. CASE nvs' = nvs
    BY <2>1
  <2>2. CASE StartWifi
    BY <2>2 DEF StartWifi
  <2>3. CASE ButtonErase
    BY <2>3 DEF ButtonErase, IInv, TypeOK, ButtonInv
  <2>4. CASE SetServer
    BY <2>4 DEF SetServer, SetKeys, OrElse, IInv, TypeOK, Stored
  <2>5. CASE SetServerType \/ SetPort
    BY <2>5 DEF SetServerType, SetPort, SetKeys, IInv, TypeOK, Stored
  <2>6. CASE \E f \in Form : OpenSettings(f)
    BY <2>6 DEF OpenSettings, IInv, TypeOK, Stored
  <2>7. CASE UNCHANGED vars
    BY <2>1, <2>7 DEF vars
  <2>8. CASE AppMain
    BY <2>1, <2>2, <2>8 DEF AppMain, Load, StartTasks, SetupHttpd, StartClient
  <2>9. CASE Http
    BY <2>1, <2>4, <2>5, <2>6, <2>9 DEF Http, Reboot
  <2>10. CASE Button
    BY <2>1, <2>3, <2>10 DEF Button, ButtonDown, ButtonUp, ButtonFactory
  <2>11. CASE GotIp \/ Disconnected \/ DispatchMsg \/ PowerCut \/ FactoryDone
    BY <2>1, <2>11 DEF GotIp, Disconnected, DispatchMsg, PowerCut, FactoryDone
  <2>12. QED
    BY <2>7, <2>8, <2>9, <2>10, <2>11 DEF Next
<1>2. QED
  BY <1>1, SettingsInv, PTL DEF Spec, LostOnlyToLongPress
=============================================================================
