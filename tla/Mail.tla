--------------------------------- MODULE Mail ---------------------------------
(***************************************************************************)
(* Outgoing mail: the durable queue and its worker (internal/mail), and the  *)
(* SMTP settings (internal/setup/smtp.go), which the admin panel writes and  *)
(* the worker reads one key at a time. The queue and the settings outlive    *)
(* the process; what its goroutines hold does not.                           *)
(***************************************************************************)
EXTENDS Integers, Sequences, FiniteSets

CONSTANTS
  Admins,      \* goroutines that serve the admin panel
  MaxMail,     \* bound: messages enqueued
  MaxSaves     \* bound: saves and deletions of the SMTP settings

ASSUME MailAssumption ==
  MaxMail \in Nat /\ MaxSaves \in Nat

(* smtp_host; smtp_port with the user name and the sender address;           *)
(* smtp_encryption; smtp_password_enc; and the flag it replaced.             *)
SmtpKeys == {"host", "port", "mode", "password", "legacy"}

VARIABLES
  queue,       \* the list "mailqueue"
  wrk,         \* what RunWorker is doing
  smtp,        \* per key the save that wrote it, 0 when absent
  sop,         \* what each admin request is doing
  enqueued, sent,
  want,        \* history: the configuration the finished requests ask for
  loose,       \* history: a save or deletion did not run to its end alone
  saves

mailVars == <<queue, wrk, smtp, sop, enqueued, sent, want, loose, saves>>

-----------------------------------------------------------------------------
Empty == [k \in SmtpKeys |-> 0]
Polling == [pc |-> "poll", msg |-> 0, cfg |-> Empty, torn |-> FALSE]
NoSave == [pc |-> "idle", keys |-> {}, todo |-> {}, id |-> 0]

(* A new instance, or one configured before the three encryption modes.      *)
MailInit ==
  /\ queue = << >> /\ wrk = Polling
  /\ smtp \in {Empty, [k \in SmtpKeys |-> IF k = "mode" THEN 0 ELSE 1]}
  /\ want = smtp
  /\ sop = [a \in Admins |-> NoSave]
  /\ enqueued = 0 /\ sent = << >> /\ loose = FALSE
  /\ saves = 1

-----------------------------------------------------------------------------
(* The SMTP settings *)

BeginSave(a, s) ==
  /\ sop[a] = NoSave /\ saves < MaxSaves
  /\ saves' = saves + 1
  /\ sop' = [sop EXCEPT ![a] = s]
  /\ loose' = (loose \/ \E b \in Admins : sop[b] # NoSave)
  /\ UNCHANGED <<queue, wrk, smtp, enqueued, sent, want>>

(* SMTPConfigureHandler: an empty password leaves the stored one alone.      *)
SMTPConfigure(a, password) ==
  LET keys == {"host", "port", "mode"} \cup (IF password THEN {"password"} ELSE {})
  IN BeginSave(a, [pc |-> "save", keys |-> keys, todo |-> keys, id |-> saves + 1])

(* (history) A write between the worker's reads of one configuration.        *)
Wrote == IF wrk.pc = "poll" THEN wrk ELSE [wrk EXCEPT !.torn = TRUE]

(* The keys in the order of a Go map.                                        *)
SaveKey(a, k) ==
  /\ sop[a].pc = "save" /\ k \in sop[a].todo
  /\ smtp' = [smtp EXCEPT ![k] = sop[a].id]
  /\ sop' = [sop EXCEPT ![a].todo = @ \ {k}]
  /\ wrk' = Wrote
  /\ UNCHANGED <<queue, enqueued, sent, want, loose, saves>>

(* The legacy flag goes last.                                                *)
SaveEnd(a) ==
  /\ sop[a].pc = "save" /\ sop[a].todo = {}
  /\ smtp' = [smtp EXCEPT !["legacy"] = 0]
  /\ sop' = [sop EXCEPT ![a] = NoSave]
  /\ wrk' = Wrote
  /\ want' = [k \in SmtpKeys |-> IF k \in sop[a].keys THEN sop[a].id
                                 ELSE IF k = "legacy" THEN 0 ELSE want[k]]
  /\ UNCHANGED <<queue, enqueued, sent, loose, saves>>

SMTPDelete(a) ==
  BeginSave(a, [pc |-> "delete", keys |-> SmtpKeys, todo |-> SmtpKeys, id |-> saves + 1])

deleteOrderMutant == <<"host", "port", "mode", "legacy">>

deleteOrder == <<"host", "port", "password", "mode", "legacy">>

DeleteKey(a) ==
  /\ sop[a].pc = "delete"
  /\ LET n == Cardinality({i \in DOMAIN deleteOrder : deleteOrder[i] \notin sop[a].todo}) + 1
         k == deleteOrder[n]
     IN /\ smtp' = [smtp EXCEPT ![k] = 0]
        /\ IF n = Len(deleteOrder)
             THEN sop' = [sop EXCEPT ![a] = NoSave] /\ want' = Empty
             ELSE sop' = [sop EXCEPT ![a].todo = @ \ {k}] /\ UNCHANGED want
  /\ wrk' = Wrote
  /\ UNCHANGED <<queue, enqueued, sent, loose, saves>>

(* The client leaves, and the next query of its request fails.               *)
CancelSave(a) ==
  /\ sop[a] # NoSave
  /\ sop' = [sop EXCEPT ![a] = NoSave]
  /\ loose' = TRUE
  /\ UNCHANGED <<queue, wrk, smtp, enqueued, sent, want, saves>>

-----------------------------------------------------------------------------
(* The queue *)

(* The last step of a handler that tells someone by mail.                    *)
Enqueue ==
  /\ enqueued < MaxMail
  /\ enqueued' = enqueued + 1
  /\ queue' = Append(queue, enqueued + 1)
  /\ UNCHANGED <<wrk, smtp, sop, sent, want, loose, saves>>

(* BLPop takes the message off the list: from here on it is in memory only.  *)
Pop ==
  /\ wrk.pc = "poll" /\ queue # << >>
  /\ wrk' = [Polling EXCEPT !.pc = "host", !.msg = Head(queue),
                            !.torn = \E a \in Admins : sop[a] # NoSave]
  /\ queue' = Tail(queue)
  /\ UNCHANGED <<smtp, sop, enqueued, sent, want, loose, saves>>

(* ResolveSMTPConfig gives up when there is no host or no port; deliver's    *)
(* error is logged and the message dropped.                                  *)
ReadKey(k, next) ==
  /\ wrk.pc = k
  /\ wrk' = IF k \in {"host", "port"} /\ smtp[k] = 0
              THEN Polling
              ELSE [wrk EXCEPT !.cfg[k] = smtp[k], !.pc = next]
  /\ UNCHANGED <<queue, smtp, sop, enqueued, sent, want, loose, saves>>

(* resolveSMTPEncryption looks at the flag only if there is no mode.         *)
resolveSMTPEncryption ==
  /\ wrk.pc = "mode"
  /\ wrk' = [wrk EXCEPT !.cfg["mode"] = smtp["mode"],
                        !.pc = IF smtp["mode"] = 0 THEN "legacy" ELSE "password"]
  /\ UNCHANGED <<queue, smtp, sop, enqueued, sent, want, loose, saves>>

ResolveSMTPConfig ==
  \/ ReadKey("host", "port") \/ ReadKey("port", "mode")
  \/ resolveSMTPEncryption \/ ReadKey("legacy", "password")
  \/ ReadKey("password", "send")

(* send: the relay takes the message, or something fails before that. (An    *)
(* error after it, from Quit, is logged like the others.) Nothing is retried.*)
Send(accepted) ==
  /\ wrk.pc = "send"
  /\ sent' = IF accepted THEN Append(sent, wrk.msg) ELSE sent
  /\ wrk' = Polling
  /\ UNCHANGED <<queue, smtp, sop, enqueued, want, loose, saves>>

MailCrash ==
  /\ wrk' = Polling
  /\ sop' = [a \in Admins |-> NoSave]
  /\ loose' = (loose \/ \E a \in Admins : sop[a] # NoSave)
  /\ UNCHANGED <<queue, smtp, enqueued, sent, want, saves>>

-----------------------------------------------------------------------------
Worker == Pop \/ ResolveSMTPConfig \/ \E accepted \in BOOLEAN : Send(accepted)

MailNext ==
  \/ Enqueue
  \/ Worker
  \/ \E a \in Admins :
       \/ \E password \in BOOLEAN : SMTPConfigure(a, password)
       \/ \E k \in SmtpKeys : SaveKey(a, k)
       \/ SaveEnd(a) \/ SMTPDelete(a) \/ DeleteKey(a) \/ CancelSave(a)

-----------------------------------------------------------------------------
(* Properties *)

(* The worker sends what was enqueued in that order and nothing twice, with  *)
(* crashes between taking a message off the list and handing it to the relay.*)
InOrderAtMostOnce ==
  \A i, j \in DOMAIN sent : i < j => sent[i] < sent[j]

(* A message goes out with the settings that the last finished save or       *)
(* deletion left, the kept password included, unless a write fell between    *)
(* the worker's reads or some save was cut short or overlapped another.      *)
SendsAsConfigured ==
  (wrk.pc = "send" /\ ~wrk.torn /\ ~loose) =>
    \A k \in SmtpKeys : (k = "legacy" /\ wrk.cfg["mode"] # 0) \/ wrk.cfg[k] = want[k]
=============================================================================
