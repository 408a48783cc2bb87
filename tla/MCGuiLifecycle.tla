--------------------------- MODULE MCGuiLifecycle ---------------------------
(* One client, a queue of one event, two lives of the task and of the queue; *)
(* the times of the code in units of 5 ms.                                    *)
EXTENDS GuiLifecycle
=============================================================================
