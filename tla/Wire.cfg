\* The socket holds one frame and a part of the next.
SPECIFICATION MCSpec
CONSTANTS
    OfiNodes <- MCBoth
    MaxRpc = 2
    t1 = t1 t2 = t2 t3 = t3
    Senders = {t1, t2, t3}
    Units = 2
    Buffer = 5
INVARIANTS NoUnknownSender FramesIntact
PROPERTIES FabricIsUsed SentIsDelivered
\* Connections are closed.
CHECK_DEADLOCK FALSE
