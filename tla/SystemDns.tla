------------------------------- MODULE SystemDns -------------------------------
(***************************************************************************)
(* The takeover of the operating system's resolver settings and its        *)
(* restoration (sempre-transparent: host.rs, macos_dns.rs, windows_dns.rs, *)
(* system_dns.rs).  A service is a macOS network service, a Windows        *)
(* interface or Linux's /etc/resolv.conf; the ownership file records the   *)
(* setting each service had.  Every setting is a command of its own, and   *)
(* the daemon may die, or drop the operation, between any two.             *)
(***************************************************************************)
EXTENDS Integers

CONSTANTS
    Service,      \* what carries resolver settings
    Value,        \* settings of the user
    Managed,      \* the address of the frontend
    MaxDnsFaults     \* bound on failures, crashes and changes by others

ASSUME SystemDnsAssumption ==
    /\ Managed \notin Value
    /\ MaxDnsFaults \in Nat

Setting == Value \cup {Managed}
Idle == [doing |-> "none"]

VARIABLES
    platform,     \* "macos", "windows" or "linux"
    setting,      \* what each service is configured with
    attached,     \* the services the system lists now
    file,         \* the services of the ownership file; {} when it is absent
    original,     \* the settings the ownership file records
    task,         \* the operation in progress, or Idle
    missed,       \* services that were detached when a restore passed
    dnsFaults

dnsVars == <<platform, setting, attached, file, original, task, missed, dnsFaults>>

DnsFault == dnsFaults < MaxDnsFaults /\ dnsFaults' = dnsFaults + 1

DnsInit ==
    /\ platform \in {"macos", "windows", "linux"}
    /\ setting \in [Service -> Value]
    /\ attached = Service
    /\ file = {} /\ original = setting /\ task = Idle
    /\ missed = {} /\ dnsFaults = 0

(* An operation works through "todo"; an apply restores first and takes    *)
(* over when the restoration is complete, unless it must fail.             *)
Doing(what, todo, next) == [doing |-> what, todo |-> todo, next |-> next, done |-> {}]

Taken(s) == setting[s] = Managed

-----------------------------------------------------------------------------
(* Callers: apply when the core starts, restore on recovery and cleanup. *)

RestoreThen(next) ==
    IF file = {} THEN Doing("done", {}, next) ELSE Doing("restore", file, next)

(* verify: everything recorded that is attached points at the frontend. *)
Verified == file # {} /\ \A s \in file \cap attached : Taken(s)

Apply ==
    /\ task = Idle
    /\ platform = "linux" \/ ~Verified
    /\ task' = RestoreThen("takeover")
    /\ UNCHANGED <<platform, setting, attached, file, original, missed, dnsFaults>>

Restore ==
    /\ task = Idle /\ file # {}
    /\ task' = RestoreThen("end")
    /\ UNCHANGED <<platform, setting, attached, file, original, missed, dnsFaults>>

-----------------------------------------------------------------------------
(* restore: a service that is gone is passed over, one that no longer      *)
(* points at the frontend is left alone.                                   *)

RestoreService ==
    /\ task.doing = "restore"
    /\ \E s \in task.todo :
        /\ task' = [task EXCEPT !.todo = @ \ {s}]
        /\ setting' = IF s \in attached /\ Taken(s)
                      THEN [setting EXCEPT ![s] = original[s]] ELSE setting
        /\ missed' = IF s \in attached THEN missed ELSE missed \cup {s}
    /\ UNCHANGED <<platform, attached, file, original, dnsFaults>>

RemoveFileEarly ==
    /\ task.doing = "restore"
    /\ file' = {}
    /\ task' = Doing("done", {}, task.next)
    /\ UNCHANGED <<platform, setting, attached, original, missed, dnsFaults>>

RemoveFile ==
    /\ task.doing = "restore" /\ task.todo = {}
    /\ file' = {}
    /\ task' = Doing("done", {}, task.next)
    /\ UNCHANGED <<platform, setting, attached, original, missed, dnsFaults>>

End ==
    /\ task.doing = "done" /\ task.next = "end"
    /\ task' = Idle
    /\ UNCHANGED <<platform, setting, attached, file, original, missed, dnsFaults>>

(* apply: the services are captured and recorded before the first changes. *)
Capture ==
    /\ task.doing = "done" /\ task.next = "takeover"
    /\ \E chosen \in SUBSET attached :
        /\ chosen # {}
        /\ platform # "windows" => chosen = attached
        /\ file' = chosen /\ original' = setting
        /\ task' = Doing("takeover", chosen, "end")
    /\ UNCHANGED <<platform, setting, attached, missed, dnsFaults>>

TakeOver ==
    /\ task.doing = "takeover"
    /\ \E s \in task.todo :
        /\ setting' = [setting EXCEPT ![s] = Managed]
        /\ task' = [task EXCEPT !.todo = @ \ {s}, !.done = @ \cup {s}]
    /\ UNCHANGED <<platform, attached, file, original, missed, dnsFaults>>

TakenOver ==
    /\ task.doing = "takeover" /\ task.todo = {}
    /\ task' = Idle
    /\ UNCHANGED <<platform, setting, attached, file, original, missed, dnsFaults>>

(* A service that cannot be set: macOS puts back the ones it changed, and  *)
(* on every platform the caller restores from the file.                    *)
TakeOverFails ==
    /\ task.doing = "takeover" /\ task.todo # {}
    /\ DnsFault
    /\ setting' = IF platform = "macos"
                  THEN [s \in Service |-> IF s \in task.done THEN original[s] ELSE setting[s]]
                  ELSE setting
    /\ task' = RestoreThen("end")
    /\ UNCHANGED <<platform, attached, file, original, missed>>

(* A command fails, the deadline of the lifecycle phase passes, or the     *)
(* daemon dies: the operation is over where it stands.                     *)
Stop ==
    /\ task # Idle /\ DnsFault
    /\ task' = Idle
    /\ UNCHANGED <<platform, setting, attached, file, original, missed>>

-----------------------------------------------------------------------------
(* Others: the user configures a service; services come and go. *)

UserSets ==
    /\ DnsFault
    /\ \E s \in Service : \E v \in Value \ {setting[s]} :
        setting' = [setting EXCEPT ![s] = v]
    /\ UNCHANGED <<platform, attached, file, original, task, missed>>

Detach ==
    /\ platform # "linux" /\ DnsFault
    /\ \E s \in attached : attached' = attached \ {s}
    /\ UNCHANGED <<platform, setting, file, original, task, missed>>

Attach ==
    /\ \E s \in (Service \ attached) : attached' = attached \cup {s}
    /\ UNCHANGED <<platform, setting, file, original, task, missed, dnsFaults>>

DnsNext ==
    \/ Apply \/ Restore \/ RestoreService \/ RemoveFile \/ End
    \/ Capture \/ TakeOver \/ TakenOver \/ TakeOverFails \/ Stop
    \/ UserSets \/ Detach \/ Attach

DnsSpec == DnsInit /\ [][DnsNext]_dnsVars

-----------------------------------------------------------------------------
(* Properties. *)

DnsTypeOK ==
    /\ platform \in {"macos", "windows", "linux"}
    /\ setting \in [Service -> Setting]
    /\ attached \subseteq Service /\ missed \subseteq Service
    /\ file \subseteq Service /\ original \in [Service -> Setting]
    /\ dnsFaults \in 0..MaxDnsFaults

(* "Transactional DNS takeover": a service that points at the frontend is  *)
(* recorded with a setting of the user's, never with Sempre's own address, *)
(* whatever fails, is cancelled or crashes on the way; so a restore leaves *)
(* no service behind.  The exception the code makes is a service that was  *)
(* detached when a restore passed over it and removed the record.          *)
OriginalsKept ==
    \A s \in Service \ missed :
        Taken(s) => s \in file /\ original[s] \in Value

=============================================================================
