CONSTANTS Tabs = {"t1","t2"}
Slugs = {"a","b"}
Bodies = {"x"}
ParameterLists = {"none","p"}
Descriptions = {}
NoSlug = NoSlug
NoEntry = NoEntry
NoDescription = NoDescription
MaxRequests = 1
MaxWrites = 2
MaxHandEdits = 0
SPECIFICATION QueriesSpec
PROPERTY NoLostUpdate
CHECK_DEADLOCK FALSE
