----------------------------- MODULE Parameters -----------------------------
(***************************************************************************)
(* The parameters in memory and everyone who works with them at the same   *)
(* time: the console task that reads, edits and publishes them (PARAM SET  *)
(* and RESET, app/app_workers.c), SW3 that selects the next set, the tasks *)
(* that follow them by their revision, of which the BLE task stands for    *)
(* the others (app/app_resources.c), and the radio whose power main and    *)
(* the BLE task set while a peer may connect (platform/ble_vario.c,        *)
(* app/startup.c).  config_mutex makes each call one step; between calls a *)
(* task works on its copy.  A wait for the mutex that times out ends a     *)
(* command with ERR, and the BLE task asks again in its next pass.         *)
(***************************************************************************)
EXTENDS ParameterSets

CONSTANTS
    StartupCollections, \* what startup may have loaded
    Nothing

ASSUME LoadedAssumption ==
    \A coll \in StartupCollections : coll \in Collections /\ ValidCollection(coll)

Power == "bluetooth_tx_power"
ASSUME PowerAssumption == Power \in Shared

\* Nothing is no configuration, no power, nothing the connect handler reads and no
\* call in progress.
Calls == [power : AnyValue, linked : BOOLEAN]
ASSUME NoneAssumption ==
    /\ Nothing \notin [Names -> AnyValue] \cup AnyValue
    /\ Nothing \notin {<<>>} \cup {<<p>> : p \in AnyValue} \cup Calls

VARIABLES
    running,    \* latest_profiles
    active,     \* the number of the set active_profile_index selects
    command,    \* what the console has edited and not published, or Nothing
    news,       \* config_revision is not the one the BLE task has seen
    heard,      \* the configuration the BLE task has copied, Nothing before
    ble,        \* what main has done: "down", "copied", "set", "up"
    copied,     \* ble_config of app_main: its power
    configured, \* configured_tx_power
    radio,      \* the power of advertising, Nothing before
    link,       \* the power of the connection, Nothing if there is none
    connecting, \* what the connect handler has read, <<>> before, or Nothing
    applying,   \* a call of ble_vario_apply_tx_power, by who makes it
    missed      \* history: a power that does not reach the radio, see Misses, or
                \* a refusal of the controller

config == <<running, active, news, missed>>
air == <<ble, copied, configured, radio, link, connecting, applying>>
parametersVars == <<config, command, heard, air>>

Callers == {"worker", "host"}
PowerNow == running.shared[Power]

\* Where the code loses a new power: it is set while main works on its own copy
\* or before the BLE task has its first, SW3 has selected another set since the
\* command read its own, or the connect handler still applies the old one.
Misses(n) ==
    running'.shared[Power] # PowerNow /\
        (n # active \/ ble \in {"copied", "set"} \/ (ble = "up" /\ heard = Nothing))
Overtakes ==
    \/ connecting \notin {<<>>, Nothing, <<PowerNow>>}
    \/ applying["host"] # Nothing /\ applying["host"].power # PowerNow

-----------------------------------------------------------------------------
(* app_resources                                                           *)

\* app_resources_publish_config_profiles, once, before the tasks start: the
\* number kept in NVS or, if there is no such set, the first.
Selected(coll, requested) ==
    IF requested \in DOMAIN coll.sets THEN requested ELSE Sorted(DOMAIN coll.sets)[1]

ParametersInit ==
    /\ running \in StartupCollections
    /\ \E requested \in Numbers : active = Selected(running, requested)
    /\ command = Nothing /\ news = TRUE /\ heard = Nothing /\ missed = FALSE
    /\ ble = "down" /\ copied = Nothing /\ configured = CHOOSE p \in Limits[Power] : TRUE
    /\ radio = Nothing /\ link = Nothing /\ connecting = Nothing /\ applying = [c \in Callers |-> Nothing]

\* Mutant of PublishForProfile: into the set that is selected now.
PublishForActive(c, n) ==
    running' = With(running, active, c) /\ news' = TRUE

\* app_resources_publish_config_for_profile, of a valid configuration.
PublishForProfile(c, n) ==
    /\ running' = With(running, n, c)
    /\ news' = (news \/ n = active)

\* Mutant of SelectNext: only the index changes.
SelectNextQuietly ==
    /\ active' = NextNumber(DOMAIN running.sets, active)
    /\ UNCHANGED <<running, news, command, heard, air, missed>>

\* app_resources_select_next_config: SW3.
SelectNext ==
    /\ active' = NextNumber(DOMAIN running.sets, active) /\ news' = TRUE
    /\ UNCHANGED <<running, command, heard, air, missed>>

-----------------------------------------------------------------------------
(* console_handle_parameter                                                *)

\* The active configuration is copied with its number and edited.
Read(names, result) ==
    /\ command = Nothing
    /\ result # Refused
    /\ command' = [number |-> active, names |-> names, config |-> result]
    /\ UNCHANGED <<config, heard, air>>

Set == \E p \in Names : \E v \in Limits[p] :
           Read({p}, SetText(Effective(running, active), p, v))

ResetOne == \E p \in Names : Read({p}, Reset(Effective(running, active), active, p))

ResetAll == Read(Names, DefaultsOf(active))

Publish ==
    /\ command # Nothing
    /\ PublishForProfile(command.config, command.number)
    /\ missed' = (missed \/ Misses(command.number))
    /\ command' = Nothing /\ UNCHANGED <<active, heard, air>>

\* The mutex was not free in time.
GiveUp == command # Nothing /\ command' = Nothing /\ UNCHANGED <<config, heard, air>>

-----------------------------------------------------------------------------
(* The radio                                                               *)

\* The critical section of ble_vario_apply_tx_power.
BeginApply(caller, p) ==
    /\ configured' = p
    /\ applying' = [applying EXCEPT ![caller] =
                        IF ble = "up" THEN [power |-> p, linked |-> link # Nothing] ELSE Nothing]

\* Mutant of EndApply: advertising only.
EndApplyAdvertising(caller) ==
    /\ applying[caller] # Nothing
    /\ radio' = applying[caller].power
    /\ applying' = [applying EXCEPT ![caller] = Nothing]
    /\ UNCHANGED <<config, command, heard, ble, copied, configured, link, connecting>>

\* The rest of it: advertising, then the connection that was there.  The
\* controller may refuse either, and nobody asks it again.
EndApply(caller) ==
    /\ applying[caller] # Nothing
    /\ \E obeyed \in SUBSET {"base", "connection"} :
        /\ radio' = IF "base" \in obeyed THEN applying[caller].power ELSE radio
        /\ link' = IF "connection" \in obeyed /\ applying[caller].linked /\ link # Nothing
                   THEN applying[caller].power ELSE link
        /\ missed' = (missed \/ obeyed # {"base", "connection"})
    /\ applying' = [applying EXCEPT ![caller] = Nothing]
    /\ UNCHANGED <<running, active, news, command, heard, ble, copied, configured, connecting>>

\* A pass of app_ble_tx_worker_task.  The first copy only says what main has
\* been given as well.
Follow ==
    /\ applying["worker"] = Nothing
    /\ heard' = Effective(running, active) /\ news' = FALSE
    /\ IF heard # Nothing /\ news
       THEN BeginApply("worker", PowerNow) /\ missed' = (missed \/ Overtakes)
       ELSE UNCHANGED <<configured, applying, missed>>
    /\ UNCHANGED <<running, active, command, ble, copied, radio, link, connecting>>

\* app_main: app_resources_copy_config, then ble_vario_init.
MainCopies ==
    /\ ble = "down"
    /\ ble' = "copied" /\ copied' = running.shared[Power]
    /\ UNCHANGED <<config, command, heard, configured, radio, link, connecting, applying>>

\* A controller that refuses advertises with a power of its own.
MainSets ==
    /\ ble = "copied"
    /\ ble' = "set" /\ configured' = copied
    /\ radio' \in Limits[Power] /\ missed' = (missed \/ radio' # copied)
    /\ UNCHANGED <<running, active, news, command, heard, copied, link, connecting, applying>>

MainEnds ==
    /\ ble = "set"
    /\ ble' = "up"
    /\ UNCHANGED <<config, command, heard, copied, configured, radio, link, connecting, applying>>

\* BLE_GAP_EVENT_CONNECT: the handle is stored, the configured power is read
\* and then applied.  A connection starts with the power of advertising.
Connect ==
    /\ ble = "up" /\ link = Nothing
    /\ link' = radio /\ connecting' = <<>>
    /\ UNCHANGED <<config, command, heard, ble, copied, configured, radio, applying>>

ReadConfigured ==
    /\ connecting = <<>>
    /\ connecting' = <<configured>>
    /\ UNCHANGED <<config, command, heard, ble, copied, configured, radio, link, applying>>

ApplyRead ==
    /\ connecting \notin {<<>>, Nothing}
    /\ BeginApply("host", connecting[1]) /\ connecting' = Nothing
    /\ UNCHANGED <<config, command, heard, ble, copied, radio, link>>

Disconnect ==
    /\ link # Nothing /\ connecting = Nothing /\ applying["host"] = Nothing
    /\ link' = Nothing
    /\ UNCHANGED <<config, command, heard, ble, copied, configured, radio, connecting, applying>>

ParametersNext ==
    \/ SelectNext \/ Set \/ ResetOne \/ ResetAll \/ Publish \/ GiveUp
    \/ Follow \/ EndApply("worker") \/ EndApply("host")
    \/ MainCopies \/ MainSets \/ MainEnds
    \/ Connect \/ ReadConfigured \/ ApplyRead \/ Disconnect

ParametersSpec == ParametersInit /\ [][ParametersNext]_parametersVars

-----------------------------------------------------------------------------
(* Properties                                                              *)

\* Whatever is set, reset and selected in whatever order, what is in memory is
\* what config_storage_save writes, verifies and the next boot reads back: no
\* sequence of commands makes a collection that PARAM SAVE refuses.
ReadsBack == Parsed(Written(running)) = running

\* A command changes the parameters it names and no other, of the shared ones
\* and of the set that was selected when it was read, though SW3 selects
\* another in between (app_resources_publish_config_for_profile).
OnlyAsked ==
    [][running' # running =>
          \A n \in DOMAIN running.sets, p \in Names :
              Effective(running', n)[p] # Effective(running, n)[p] =>
                  p \in command.names /\ (p \in Shared \/ n = command.number)]_parametersVars

\* A task that follows the revision and sees no new one works with the set
\* that is selected, as it is (app_resources_copy_config_with_revision).
SetIsTold ==
    ~news => \A p \in Own : heard[p] = running.sets[active][p]

\* When everyone has ended what he has begun, advertising and the connection
\* have the power that is in memory, whenever a peer came or went and whoever
\* applied it, except where Misses and Overtakes say and until the controller
\* refuses a power (ble_vario_apply_tx_power).
PowerReaches ==
    /\ ~missed /\ ~news /\ ble = "up" /\ connecting = Nothing
    /\ \A c \in Callers : applying[c] = Nothing
    => radio = PowerNow /\ link \in {Nothing, PowerNow}
=============================================================================
