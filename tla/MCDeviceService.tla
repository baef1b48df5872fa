--------------------------- MODULE MCDeviceService ---------------------------
(***************************************************************************)
(* Model checking of the service.                                          *)
(***************************************************************************)
EXTENDS DeviceService

MCAddress == {"address1"}

AllGranted ==
    [create |-> "Started", listener |-> "Started", address |-> "address1", open |-> TRUE,
     reconnectTimer |-> TRUE, barrierTimer |-> TRUE, cooldownTimer |-> TRUE]

NoRefusals == {AllGranted}

SomeRefusals ==
    {AllGranted,
     [AllGranted EXCEPT !.create = "NoConnection", !.listener = "NoConnection",
                        !.barrierTimer = FALSE, !.open = FALSE]}

Succeeds == [start |-> "Success", open |-> [Result |-> "Success", IsTransientFailure |-> FALSE]]
StartFails == [Succeeds EXCEPT !.start = "Failed"]
OpenFails == [Succeeds EXCEPT !.open.Result = "Failed"]
EachAnswer == {Succeeds, StartFails, OpenFails}
OnlySuccess == {Succeeds}

Allow(listen, reconnect, devices) ==
    [Revision |-> 0, AllowIncomingConnections |-> listen,
     GlobalReconnectOnConnectionLoss |-> reconnect, ReconnectDeviceIds |-> devices]
MCPolicies == {Allow(TRUE, FALSE, Device), Allow(FALSE, FALSE, {})}

(* Commands against each other on a platform that refuses, and against     *)
(* policies, startup connections and a shutdown; policies against watcher  *)
(* events, refreshes, startup connections and power transitions, and over  *)
(* more epochs without the refreshes.                                      *)
CommandScope ==
    [commands |-> Command, platforms |-> SomeRefusals, answers |-> EachAnswer,
     calls |-> {"Connect", "Reconnect", "Disconnect", "CancelReconnect", "All", "Shutdown"},
     maxSettings |-> 0, maxTasks |-> 0, maxEpoch |-> 3]
PolicyScope ==
    [commands |-> {}, platforms |-> NoRefusals, answers |-> OnlySuccess,
     calls |-> {"Startup", "Policy", "Power", "Watcher", "Refresh"},
     maxSettings |-> 2, maxTasks |-> 1, maxEpoch |-> 3]
MCScopes ==
    {CommandScope,
     [CommandScope EXCEPT !.calls = {"Connect", "Reconnect", "Disconnect", "Startup", "Policy",
                                     "Shutdown"},
                          !.platforms = NoRefusals, !.maxSettings = 1],
     PolicyScope,
     [PolicyScope EXCEPT !.calls = @ \ {"Refresh"}, !.maxSettings = 1, !.maxEpoch = 4]}
PowerOnly == {[PolicyScope EXCEPT !.calls = {"Startup", "Power"}, !.maxSettings = 0,
                                  !.maxTasks = 0, !.maxEpoch = 3]}

(* As for one session, the handlers compare an epoch only with the current *)
(* one, so states that agree on which epochs, generations and versions are *)
(* current behave alike.  A late callback or task changes nothing.         *)
IsCurrentCallback(s, c) ==
    CASE c.kind \in {"Started", "Opened", "StateChanged"} -> c.epoch = s.OperationEpoch
      [] c.kind \in {"RetryTimer", "TransientOpenRetryTimer"} ->
            c.epoch = s.OperationEpoch /\ c.timerEpoch = s.TimerEpoch
      [] c.kind \in {"CloseTimeout", "Closed", "Cooldown"} ->
            c.closeBarrierEpoch = s.CloseBarrierEpoch

Shape(c) ==
    CASE c.kind \in {"Started", "Opened"} -> <<c.kind, c.address>>
      [] c.kind = "StateChanged" -> <<c.kind, c.address, c.state>>
      [] OTHER -> <<c.kind>>

SessionShape(s) ==
    [s EXCEPT !.OperationEpoch = 0, !.TimerEpoch = 0, !.CloseBarrierEpoch = 0,
              !.HandlerEpoch = @ = s.OperationEpoch,
              !.SuspendCloseEpoch = @ = s.OperationEpoch,
              !.callbacks = {Shape(c) : c \in {d \in @ : IsCurrentCallback(s, d)}}]

OperationShape(o) ==
    IF o.caller = "None" THEN o
    ELSE [o EXCEPT !.Epoch = o.DeviceId \in DOMAIN sessions
                             /\ @ = sessions[o.DeviceId].OperationEpoch]

TaskShape(t) ==
    CASE t.kind = "Policy" -> <<t.kind, t.policy>>
      [] t.kind = "Refreshed" -> <<t.kind, t.devices>>
      [] t.kind = "EnumerationCompleted" -> <<t.kind>>
      [] OTHER -> <<t.kind, t.device>>

CurrentEpochs ==
    <<[d \in DOMAIN sessions |-> SessionShape(sessions[d])], lifecycle, policy,
      [d \in DOMAIN recoveryEpochs |->
          d \in DOMAIN sessions /\ recoveryEpochs[d] = sessions[d].OperationEpoch],
      [watcher EXCEPT !.WatcherGeneration = 0, !.InventoryVersion = 0],
      [c \in Command |-> OperationShape(operations[c])],
      {TaskShape(t) : t \in {u \in tasks : IsCurrentTask(u)}}, settings, stopRequested, scope>>
=============================================================================
