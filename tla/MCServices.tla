---------------------------- MODULE MCServices ----------------------------
(* The parts that share no state with each other, one of them in each behaviour; the
   client with two conversations, one of which asks for an approval, with a conversation
   and a scheduled task, which ask for one each, or with one conversation, which asks for
   two. *)
EXTENDS Secrets, Scheduler, Checkpoints, Duplicates, ClientView

VARIABLE part

ServicesInit ==
    /\ part \in {"key", "jobs", "checkpoints", "duplicates", "chats", "chat and task", "chat"}
    /\ SecretsInit /\ SchedInit /\ CkInit /\ DupInit /\ ClientInit
    /\ part # "key" => backend = "unavailable" /\ legacy = None
    /\ part # "duplicates" => holds \in [Copies -> {CHOOSE x \in Contents : TRUE}]

One == CHOOSE c \in Chats : TRUE

ServicesNext ==
    /\ UNCHANGED part
    /\ \/ /\ part = "key" /\ SecretsNext
          /\ UNCHANGED <<schedVars, ckVars, dupVars, clientVars>>
       \/ /\ part = "jobs" /\ SchedNext
          /\ UNCHANGED <<keyVars, ckVars, dupVars, clientVars>>
       \/ /\ part = "checkpoints" /\ CkNext
          /\ UNCHANGED <<keyVars, schedVars, dupVars, clientVars>>
       \/ /\ part = "duplicates" /\ DupNext
          /\ UNCHANGED <<keyVars, schedVars, ckVars, clientVars>>
       \/ /\ part = "chats" /\ ClientNext
          /\ \A t \in Talkers : /\ asked'[t] <= IF t = One THEN 1 ELSE 0
                                /\ t \in Timed => sent'[t] = 0
          /\ UNCHANGED <<keyVars, schedVars, ckVars, dupVars>>
       \/ /\ part = "chat and task" /\ ClientNext
          /\ \A t \in Talkers : asked'[t] < 2 /\ (t \in Chats \ {One} => sent'[t] = 0)
          /\ UNCHANGED <<keyVars, schedVars, ckVars, dupVars>>
       \/ /\ part = "chat" /\ ClientNext
          /\ \A t \in Talkers \ {One} : sent'[t] = 0
          /\ UNCHANGED <<keyVars, schedVars, ckVars, dupVars>>

ServicesSpec ==
    ServicesInit
    /\ [][ServicesNext]_<<part, keyVars, schedVars, ckVars, dupVars, clientVars>>
=============================================================================
