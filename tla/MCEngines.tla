------------------------------ MODULE MCEngines ------------------------------
EXTENDS Engines

AllEngines == {"pyarrow_dataset", "polars", "duckdb", "deltalake", "dlt", "dataprof"}
=============================================================================
