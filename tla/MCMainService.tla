---- MODULE MCMainService ----
(* Two keys, one of them the configuration of a bus, and payloads with a quoted value,
   an unknown key, two lines and a port beyond 16 bits. *)
EXTENDS MainService

MCKeyOrder == <<"car_system_can_name", "external_service_port">>
MCDefaults == [car_system_can_name |-> <<"vcan0">>, external_service_port |-> <<9095>>]

Can(fields, q) == [key |-> "car_system_can_name", val |-> [text |-> fields, quotes |-> q]]
Port(n) == [key |-> "external_service_port", val |-> [text |-> <<n>>, quotes |-> 0]]
Unknown == [key |-> "unknown", val |-> [text |-> <<"x">>, quotes |-> 0]]

MCPayloads == {<<Can(<<"can0", "usb", "led">>, 1)>>,
               <<Can(<<"can0", "usb">>, 0), Port(70000)>>,
               <<Unknown, Port(9000)>>}
MCInitialFiles == {<<Port(9000), Unknown>>, <<Can(<<"can0", "usb", "">>, 1), Port(9095)>>}
====
