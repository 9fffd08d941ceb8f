------------------------------ MODULE Settings ------------------------------
(***************************************************************************)
(* Start-up and configuration: app_main (esp32-dsc.c), load_config and the *)
(* reset button's task (config.c), the settings and reboot forms (http.c)  *)
(* and what they wait for from wifi.c.                                     *)
(*                                                                         *)
(* A setting is in flash as soon as nvs_set_* returns; the running         *)
(* configuration is read once, at start-up.  The device may restart, by    *)
(* a form, the button, the console, a panic or a power cut, between any    *)
(* two steps, and the button's task runs while a form is being saved.      *)
(***************************************************************************)
EXTENDS Integers

CONSTANTS
  Servers,       \* server names a form may hold
  Ports,         \* port numbers a form may hold
  DefaultPort,   \* 10242
  Unset,         \* a field left empty, a key not in flash, a NULL pointer
  FormTypes,     \* what a form may hold as server type, Unset included
  FlashFails,    \* may nvs_flash_init find no free pages?
  ButtonMod      \* reset_button wraps here (256 in the code)

ASSUME SettingsAssumption ==
  /\ Unset \notin Servers \cup Ports
  /\ DefaultPort \in Nat /\ Ports \subseteq Nat
  /\ FormTypes \subseteq {"MQTT", "TCP", "Cloud", Unset}
  /\ FlashFails \in BOOLEAN
  /\ ButtonMod \in Nat /\ ButtonMod > 11

VARIABLES
  nvs,           \* the config namespace in flash
  ota,           \* what the next start boots: this program or "factory"
  main_pc,       \* app_main
  nvs_ok,        \* nvs_flash_init of load_config succeeded
  dsc_config,    \* the running configuration
  wifi,          \* WIFI_CONNECTED_BIT
  client,        \* the client app_main has started
  http_pc, form, \* cgiSettings and the form it saves
  reset_button,  \* config_task
  pressed,       \* history: how long the button has been down, up to 11
  wanted,        \* history: what is to be in flash after the last form, Unset
                 \* if it cannot be said
  loaded         \* history: the flash has not changed since load_config

httpVars == <<http_pc, form, wanted>>
vars == <<nvs, ota, main_pc, nvs_ok, dsc_config, wifi, client, httpVars,
          reset_button, pressed, loaded>>

-----------------------------------------------------------------------------
ServerType == {"MQTT", "TCP"}
Opt(S) == S \cup {Unset}

Stored == [exists : BOOLEAN, server : Opt(Servers), server_type : Opt(ServerType),
           port : Opt(Ports \cup {DefaultPort})]

\* An empty namespace that exists, as nvs_open for writing or nvs_erase_all leave
\* it, is not the same as none.
Namespace(exists) ==
  [exists |-> exists, server |-> Unset, server_type |-> Unset, port |-> Unset]

Config == [server : Opt(Servers), port : Nat, server_type : ServerType,
           dispatch_msg : Opt(ServerType)]

\* dsc_config before load_config assigns it: SERVER_MQTT is 0.
ZeroConfig == [server |-> Unset, port |-> 0, server_type |-> "MQTT",
               dispatch_msg |-> Unset]

DefaultConfig == [server |-> Unset, port |-> DefaultPort, server_type |-> "TCP",
                  dispatch_msg |-> "TCP"]

Form == [server : Opt(Servers), server_type : FormTypes, port : Opt(Ports)]
NoForm == [server |-> Unset, server_type |-> Unset, port |-> Unset]

OrElse(x, default) == IF x = Unset THEN default ELSE x

Init ==
  /\ nvs = Namespace(FALSE) /\ ota = "app"
  /\ main_pc = "load" /\ nvs_ok = TRUE /\ dsc_config = ZeroConfig
  /\ wifi = FALSE /\ client = Unset
  /\ http_pc = "idle" /\ form = NoForm /\ wanted = Namespace(FALSE)
  /\ reset_button = 0 /\ pressed = 0
  /\ loaded = FALSE

-----------------------------------------------------------------------------
(* app_main *)

\* Mutant: the client is chosen by what was there before.
ConfigFrom_OldType(keys) ==
  LET type == OrElse(keys.server_type, "TCP")
  IN [server |-> keys.server, port |-> OrElse(keys.port, DefaultPort),
      server_type |-> type, dispatch_msg |-> dsc_config.server_type]

ConfigFrom(keys) ==
  LET type == OrElse(keys.server_type, "TCP")
  IN [server |-> keys.server, port |-> OrElse(keys.port, DefaultPort),
      server_type |-> type, dispatch_msg |-> type]

\* load_config: without a server in an existing namespace it gives up before it
\* has assigned anything.
Load ==
  /\ main_pc = "load"
  /\ nvs_ok' \in IF FlashFails THEN BOOLEAN ELSE {TRUE}
  /\ dsc_config' = IF ~(nvs_ok' /\ nvs.exists) THEN DefaultConfig
                   ELSE IF nvs.server = Unset THEN dsc_config
                   ELSE ConfigFrom(nvs)
  /\ loaded' = TRUE
  /\ main_pc' = "tasks"
  /\ UNCHANGED <<nvs, ota, wifi, client, httpVars, reset_button, pressed>>

\* The console, the bus interface and the message handler.
StartTasks ==
  /\ main_pc = "tasks"
  /\ main_pc' = "wifi"
  /\ UNCHANGED <<nvs, ota, nvs_ok, dsc_config, wifi, client, httpVars,
                 reset_button, pressed, loaded>>

\* start_wifi makes room in a full flash by erasing all of it; then config_task is
\* started.
StartWifi ==
  /\ main_pc = "wifi"
  /\ nvs' = IF nvs_ok THEN nvs ELSE Namespace(FALSE)
  /\ wanted' = IF nvs_ok THEN wanted ELSE nvs'
  /\ loaded' = (loaded /\ nvs_ok)
  /\ main_pc' = "httpd"
  /\ UNCHANGED <<ota, nvs_ok, dsc_config, wifi, client, http_pc, form,
                 reset_button, pressed>>

\* setup_httpd waits for the WiFi.
SetupHttpd ==
  /\ main_pc = "httpd" /\ wifi
  /\ main_pc' = "client"
  /\ UNCHANGED <<nvs, ota, nvs_ok, dsc_config, wifi, client, httpVars,
                 reset_button, pressed, loaded>>

\* Mutant: the case of a TCP server is missing.
StartClient_OnlyMqtt ==
  /\ main_pc = "client" /\ dsc_config.server_type = "MQTT"
  /\ client' = dsc_config.server_type
  /\ main_pc' = "up"
  /\ UNCHANGED <<nvs, ota, nvs_ok, dsc_config, wifi, httpVars, reset_button,
                 pressed, loaded>>

StartClient ==
  /\ main_pc = "client"
  /\ client' = dsc_config.server_type
  /\ main_pc' = "up"
  /\ UNCHANGED <<nvs, ota, nvs_ok, dsc_config, wifi, httpVars, reset_button,
                 pressed, loaded>>

\* Whatever restarts the device, all but the flash is lost.
Restart ==
  /\ main_pc' = IF ota' = "app" THEN "load" ELSE "factory"
  /\ dsc_config' = ZeroConfig
  /\ wifi' = FALSE /\ client' = Unset
  /\ http_pc' = "idle" /\ form' = NoForm
  /\ wanted' = nvs'
  /\ reset_button' = 0 /\ pressed' = 0 /\ loaded' = FALSE
  /\ UNCHANGED nvs_ok

\* esp_restart of the console's reset command, a failed ESP_ERROR_CHECK, a power cut.
PowerCut ==
  /\ main_pc # "factory"
  /\ UNCHANGED <<nvs, ota>>
  /\ Restart

\* The factory program, which is not part of this repository, installs this one.
FactoryDone ==
  /\ main_pc = "factory"
  /\ ota' = "app"
  /\ UNCHANGED nvs
  /\ Restart

GotIp ==
  /\ main_pc \in {"httpd", "client", "up"}
  /\ wifi' = TRUE
  /\ UNCHANGED <<nvs, ota, main_pc, nvs_ok, dsc_config, client, httpVars,
                 reset_button, pressed, loaded>>

Disconnected ==
  /\ main_pc \in {"httpd", "client", "up"}
  /\ wifi' = FALSE
  /\ UNCHANGED <<nvs, ota, main_pc, nvs_ok, dsc_config, client, httpVars,
                 reset_button, pressed, loaded>>

\* The message handler's call of dsc_config.dispatch_msg: a NULL pointer panics.
DispatchMsg ==
  /\ main_pc \in {"wifi", "httpd", "client", "up"}
  /\ dsc_config.dispatch_msg = Unset
  /\ UNCHANGED <<nvs, ota>>
  /\ Restart

-----------------------------------------------------------------------------
(* cgiSettings, one setting at a time *)

\* What a form asks to be stored: fields left empty keep the server and give the
\* default port; every type but MQTT is stored as TCP, and no type, under a key
\* that is never read.
Asked(keys, f) ==
  [exists |-> TRUE,
   server |-> OrElse(f.server, keys.server),
   server_type |-> IF f.server_type = Unset THEN keys.server_type
                   ELSE IF f.server_type = "MQTT" THEN "MQTT" ELSE "TCP",
   port |-> OrElse(f.port, DefaultPort)]

\* nvs_open for writing creates the namespace.
OpenSettings(f) ==
  /\ main_pc \in {"client", "up"} /\ http_pc = "idle"
  /\ form' = f
  /\ nvs' = [nvs EXCEPT !.exists = TRUE]
  /\ wanted' = Asked(nvs, f)
  /\ loaded' = FALSE
  /\ http_pc' = "server"
  /\ UNCHANGED <<ota, main_pc, nvs_ok, dsc_config, wifi, client, reset_button,
                 pressed>>

SetKeys(keys, next) ==
  /\ nvs' = keys
  /\ http_pc' = next
  /\ UNCHANGED <<ota, main_pc, nvs_ok, dsc_config, wifi, client, form, wanted,
                 reset_button, pressed, loaded>>

SetServer ==
  /\ http_pc = "server"
  /\ SetKeys([nvs EXCEPT !.server = OrElse(form.server, @)], "type")

SetServerType ==
  /\ http_pc = "type"
  /\ SetKeys([nvs EXCEPT !.server_type = Asked(nvs, form).server_type], "port")

\* Mutant: a port left empty stays as it was.
SetPort_Keeps ==
  /\ http_pc = "port"
  /\ SetKeys([nvs EXCEPT !.port = OrElse(form.port, @)], "idle")

SetPort ==
  /\ http_pc = "port"
  /\ SetKeys([nvs EXCEPT !.port = OrElse(form.port, DefaultPort)], "idle")

\* cgiReboot; "rebootfactory" erases the partition that selects this program.
Reboot(factory) ==
  /\ main_pc \in {"client", "up"} /\ http_pc = "idle"
  /\ ota' = IF factory THEN "factory" ELSE ota
  /\ UNCHANGED nvs
  /\ Restart

-----------------------------------------------------------------------------
(* config_task, once a second *)

NextCount(n) == (n + 1) % ButtonMod

UpTo(bound, n) == IF n < bound THEN n + 1 ELSE bound

ButtonDown ==
  /\ main_pc \in {"httpd", "client", "up"}
  /\ reset_button' = NextCount(reset_button)
  /\ pressed' = UpTo(11, pressed)
  /\ UNCHANGED <<nvs, ota, main_pc, nvs_ok, dsc_config, wifi, client, httpVars,
                 loaded>>

\* Mutant: a press that does nothing is not forgotten.
Released_Remembered == reset_button' = reset_button /\ pressed' = 0

Released == reset_button' = 0 /\ pressed' = 0

ButtonUp ==
  /\ main_pc \in {"httpd", "client", "up"}
  /\ reset_button \in 0 .. 3 \cup {10}
  /\ Released
  /\ UNCHANGED <<nvs, ota, main_pc, nvs_ok, dsc_config, wifi, client, httpVars,
                 loaded>>

ButtonFactory ==
  /\ main_pc \in {"httpd", "client", "up"}
  /\ reset_button \in 4 .. 9
  /\ ota' = "factory"
  /\ UNCHANGED nvs
  /\ Restart

\* erase_config: the namespace stays, and the device is not restarted.
ButtonErase ==
  /\ main_pc \in {"httpd", "client", "up"}
  /\ reset_button > 10
  /\ nvs' = Namespace(TRUE)
  /\ wanted' = IF http_pc = "idle" THEN nvs' ELSE Unset
  /\ loaded' = FALSE
  /\ Released
  /\ UNCHANGED <<ota, main_pc, nvs_ok, dsc_config, wifi, client, http_pc, form>>

-----------------------------------------------------------------------------
Http   == \/ \E f \in Form : OpenSettings(f)
          \/ SetServer \/ SetServerType \/ SetPort
          \/ \E factory \in BOOLEAN : Reboot(factory)
Button == ButtonDown \/ ButtonUp \/ ButtonFactory \/ ButtonErase
AppMain == Load \/ StartTasks \/ StartWifi \/ SetupHttpd \/ StartClient
Next == AppMain \/ Http \/ Button \/ GotIp \/ Disconnected \/ DispatchMsg
          \/ PowerCut \/ FactoryDone

Spec == Init /\ [][Next]_vars

\* app_main runs on; it waits for a bit that stays set once it is woken.
Fairness ==
  /\ WF_vars(Load \/ StartTasks \/ StartWifi \/ StartClient)
  /\ SF_vars(SetupHttpd)

FairSpec == Spec /\ Fairness

-----------------------------------------------------------------------------
(* Properties *)

\* Types; in particular reset_button is a byte, and no server type is stored but
\* the two that there are clients for.
TypeOK ==
  /\ nvs \in Stored /\ ota \in {"app", "factory"}
  /\ main_pc \in {"load", "tasks", "wifi", "httpd", "client", "up", "factory"}
  /\ nvs_ok \in BOOLEAN /\ dsc_config \in Config
  /\ wifi \in BOOLEAN /\ client \in Opt(ServerType)
  /\ http_pc \in {"idle", "server", "type", "port"} /\ form \in Form \cup {NoForm}
  /\ wanted \in Stored \cup {Unset}
  /\ reset_button \in 0 .. ButtonMod - 1
  /\ pressed \in 0 .. 11 /\ loaded \in BOOLEAN

\* A form that was saved to its end is what is in flash, until the button or a
\* full flash erases it, however restarts fell into forms before it.
SavedAsAsked == http_pc = "idle" /\ wanted # Unset => nvs = wanted

\* As long as nothing is saved or erased after a start, the device runs what is
\* stored: its client is the one asked for, messages are dispatched to that
\* client and no other, and server and port are those in flash.
RunsWhatIsStored ==
  /\ TypeOK
  /\ main_pc = "up" /\ loaded /\ nvs.server # Unset =>
       /\ client = OrElse(nvs.server_type, "TCP")
       /\ dsc_config.dispatch_msg = client
       /\ dsc_config.server = nvs.server
       /\ dsc_config.port = OrElse(nvs.port, DefaultPort)

\* A server in flash is lost only to a press of the button of more than ten
\* seconds without a break, or to a full flash at start-up.
LostOnlyToLongPress ==
  [][nvs.server # Unset /\ nvs'.server = Unset
     => pressed > 10 \/ ~nvs_ok]_vars

\* If the device is not restarted for ever and the WiFi comes back again and
\* again, a client is started.
ComesUp ==
  <>[](main_pc \notin {"load", "factory"}) /\ []<>wifi => <>(client # Unset)
=============================================================================
