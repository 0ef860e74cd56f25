---------------------------------- MODULE Rows ----------------------------------
(***************************************************************************)
(* Table rows as the services read and write them through Sequelize         *)
(* (common/repositories/BaseRepository.js and the models).                  *)
(***************************************************************************)
CONSTANTS
  None,     \* there is no such row
  NoValue   \* NULL in a column

\* record.update(values) writes the fields whose value differs from the record
\* the service holds, which may be older than the row.
Updated(current, read, values) ==
  [f \in DOMAIN current |->
     IF f \in DOMAIN values /\ values[f] # read[f] THEN values[f] ELSE current[f]]

\* The same on a record that is still the row.
Overwritten(row, values) ==
  [f \in DOMAIN row |-> IF f \in DOMAIN values THEN values[f] ELSE row[f]]

\* A table without rows.
NoRows == [key \in {} |-> None]
===============================================================================
