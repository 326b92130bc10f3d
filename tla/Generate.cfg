\* Up to two noise tables of three fields; five configurations.
SPECIFICATION Spec
CONSTANTS
    DottedNames = {}
    Configs <- MCConfigs
    NoiseStems = {"tmp_records", "stg_data"}
    NoiseColumns = {"id", "ref_id", "name"}
    NoiseTypes = {"uuid", "text"}
    FieldCounts = {3}
INVARIANTS
    GeneratedIsStrict
    SignalIsIntact
    NoiseIsLayered
