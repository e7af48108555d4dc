--------------------------- MODULE MCAddressMapper ---------------------------
EXTENDS AddressMapper

\* Two data structures and the -2 placeholder of pim_device_place_data.
MCIndex == {0, -2}

\* The numpy arrays are not read while the dirty flag is up, so states that
\* differ only in a stale copy are one state.
View == <<table, dirty, IF dirty THEN Unbaked ELSE baked, answer>>
=============================================================================
