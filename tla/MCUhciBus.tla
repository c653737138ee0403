------------------------------ MODULE MCUhciBus ------------------------------
\* Configurations of up to two interfaces, which are two settings of one or two
\* of their own; what follows them is nothing or a descriptor cut short.
EXTENDS UhciBus

In(interval) == [address |-> 129, attributes |-> 3, interval |-> interval]
Out == [address |-> 1, attributes |-> 3, interval |-> 6]
Bulk == [address |-> 130, attributes |-> 2, interval |-> 0]

If(number, setting, protocol, endpoints) ==
    [number |-> number, setting |-> setting, protocol |-> protocol, endpoints |-> endpoints]

MCConfigs == {<< >>,
              <<If(0, 0, 1, <<Out, In(0)>>)>>,
              <<If(0, 0, 0, <<Bulk, In(6)>>)>>,
              <<If(0, 0, 0, <<In(0)>>), If(0, 1, 1, <<In(6)>>)>>,
              <<If(0, 0, 1, <<In(6)>>), If(1, 0, 1, <<In(0)>>)>>,
              <<If(0, 0, 1, <<Bulk>>), If(1, 0, 0, <<In(0)>>)>>}
MCTails == {<< >>, <<9, 4>>}
=============================================================================
