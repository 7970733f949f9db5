------------------------------ MODULE MCWebPage ------------------------------
(* A board of the user's own, two at the daemon's host; a NOR image.        *)
EXTENDS WebPage

CONSTANTS own, near, far

MCDaemonBoards == <<near, far>>
MCSocOf == [b \in {own, near, far} |-> IF b = own THEN "t32" ELSE "t31x"]
MCMagicOf == [b \in {own, near, far} |-> "t31x"]

Nor == [layout |-> <<[name |-> "boot", size |-> 1, at |-> NoOffset],
                     [name |-> "data", size |-> 1, at |-> NoOffset]>>,
        flash |-> <<{"boot"}, {"empty"}>>, ubi |-> << >>]
Nand == [layout |-> <<[name |-> "ubi", size |-> Rest, at |-> NoOffset]>>,
         flash |-> <<{"boot"}>>,
         ubi |-> 0 :> {"env"} @@ 1 :> {"kernel"} @@ 2 :> {"rootfs"}]

MCImages == {Nor}
MCAssets == {[image |-> Nand, soc |-> "t32", official |-> TRUE, sum |-> TRUE]}
MCForms == {NoForm, [NoForm EXCEPT !.rows = <<"key">>], [NoForm EXCEPT !.rows = <<"key", "half">>]}
MCFound == {[b \in {own, near, far} |->
              IF b = own THEN st ELSE IF b = near THEN "rom" ELSE "gadget"] :
              st \in {"rom", "gadget"}}
MCNoBoards == << >>
MCPutAway == {[b \in {own} |-> "absent"]}
MCKept == {{"verify", "inject"}, {"reboot", "advanced"}}
=============================================================================
